---- MODULE Spec2Model ----
(***************************************************************************)
(* Theatre service: the ETag / If-Match protocol of the REST handlers      *)
(* (routers/*.py over services/*.py and the SQLAlchemy models) and of the  *)
(* in-memory application of main.py.                                       *)
(*                                                                         *)
(* Values.  A Python value is a tagged tuple: <<"none">>, <<"int", n>>,    *)
(* <<"str", s>>, <<"dt", t>> (a datetime), <<"uuid", hi, lo>> (a UUID: hi  *)
(* is the number written by its first 8 hex digits, lo the number written  *)
(* by the other 24).  An Optional header or argument is <<>> (None) or     *)
(* <<v>>.  Database rows hold plain values; a nullable column holds <<>>   *)
(* or <<v>>.                                                               *)
(***************************************************************************)
EXTENDS Integers, Sequences, FiniteSets, TLC

VARIABLES
    db_cinemas,     \* table cinemas: row i has cinema_id i (autoincrement)
    db_theatres,    \* table theatres
    db_screens,     \* table screens
    db_showtimes,   \* table showtimes
    theatres,       \* main.py: the in-memory dict theatres, UUID -> TheatreRead
    cinemas,        \* main.py: the in-memory dict cinemas, UUID -> CinemaRead
    next_uuid,      \* main.py: how many uuid4() values were drawn
    now,            \* datetime.utcnow(), at the resolution the store keeps
    resp,           \* the last request and its response
    focus,          \* the collection the client works on
    writers         \* requests in flight, handled step by step

vars == <<db_cinemas, db_theatres, db_screens, db_showtimes, theatres, cinemas,
          next_uuid, now, resp, focus, writers>>

----------------------------------------------------------------------------
(* Bounds of the model *)

MaxTime == 1
MaxRows == 1
MaxServiceRows == 2

Names == {"A", "B"}
Counts == {1}
Address == "X"

----------------------------------------------------------------------------
(* Python values *)

None == <<>>
Some(v) == <<v>>
PyNone == <<"none">>
PyInt(n) == <<"int", n>>
PyStr(s) == <<"str", s>>
PyDt(t) == <<"dt", t>>
PyUuid(hi, lo) == <<"uuid", hi, lo>>

IsInt(v) == v[1] = "int"
IsUuid(v) == v[1] = "uuid"
IsStr(v) == v[1] = "str"
IsDt(v) == v[1] = "dt"

----------------------------------------------------------------------------
(* utils/etag.py *)

\* An encoder that writes a datetime to a coarser precision.
JsonValue_coarse_datetime(v) ==
    CASE v[1] = "dt" -> <<"json-string", <<"isoformat", v[2] \div 2>>, "Z">>
      [] v[1] = "uuid" -> <<"json-string", <<"uuid-str", v[2], v[3]>>>>
      [] v[1] = "str" -> <<"json-string", v[2]>>
      [] v[1] = "int" -> <<"json-number", v[2]>>

\* PydanticJSONEncoder.default and json.dumps of one value: a datetime is written
\* as its isoformat() followed by "Z", a UUID as its str(), both JSON strings.
JsonValue(v) ==
    CASE IsDt(v) -> <<"json-string", <<"isoformat", v[2]>>, "Z">>
      [] IsUuid(v) -> <<"json-string", <<"uuid-str", v[2], v[3]>>>>
      [] IsStr(v) -> <<"json-string", v[2]>>
      [] IsInt(v) -> <<"json-number", v[2]>>

\* model_dump(exclude_none=True): the fields whose value is not None.
model_dump_exclude_none(obj) == {k \in DOMAIN obj : obj[k] # PyNone}

\* A tag that leaves the update timestamp out.
calc_etag_without_updated_at(obj) ==
    {<<k, JsonValue(obj[k])>> : k \in model_dump_exclude_none(obj) \ {"updated_at"}}

\* A tag that also takes in the time of the call.
calc_etag_with_time_of_call(obj) ==
    {<<k, obj[k]>> : k \in {f \in DOMAIN obj : obj[f] # <<"none">>}} \cup {<<"now", now>>}

\* json.dumps(..., sort_keys=True, separators=(",", ":")) of the dumped fields.
\* With the keys sorted the text is determined by the set of key/value pairs;
\* SHA-256 is taken to be collision free, so the digest stands for that text.
calc_etag(obj) ==
    {<<k, JsonValue(obj[k])>> : k \in model_dump_exclude_none(obj)}

\* int_to_uuid of a row id.  A row id is a MySQL INT, below 2^96, so the first
\* 8 of the 32 hex digits of f"{value:032x}" are zeros.
int_to_uuid(value) == PyUuid(0, value)

\* A tag no representation has.
BogusTag == {<<"bogus", <<"json-string", "bogus">>>>}

----------------------------------------------------------------------------
(* utils/converters.py *)

\* db_to_uuid of a row's id column (an int).
db_to_uuid(value) == int_to_uuid(value)

dict_to_theatre_read(db_item) ==
    [theatre_id |-> db_to_uuid(db_item.theatre_id),
     name |-> PyStr(db_item.name),
     address |-> PyStr(db_item.address),
     cinema_id |-> db_to_uuid(db_item.cinema_id),
     screenCount |-> PyInt(db_item.screen_count),
     created_at |-> PyDt(db_item.created_at),
     updated_at |-> PyDt(db_item.updated_at)]

\* dict_to_screen_read of an object with the attributes of db_item and the Python
\* value screen_number as its screen_number attribute: the attribute is put in the
\* dict as it is, None included.
dict_to_screen_read_passing(db_item, screen_number) ==
    [screen_id |-> db_to_uuid(db_item.screen_id),
     theatre_id |-> db_to_uuid(db_item.theatre_id),
     screen_number |-> screen_number,
     num_rows |-> PyInt(db_item.num_rows),
     num_cols |-> PyInt(db_item.num_cols),
     created_at |-> PyDt(db_item.created_at),
     updated_at |-> PyDt(db_item.updated_at)]

\* dict_to_screen_read of a row of the table, whose screen_number is a string
\* (String(10), nullable=False).
dict_to_screen_read(db_item) ==
    dict_to_screen_read_passing(db_item, PyStr(db_item.screen_number))

dict_to_cinema_read(db_item) ==
    [cinema_id |-> db_to_uuid(db_item.cinema_id),
     name |-> PyStr(db_item.name),
     created_at |-> PyDt(db_item.created_at),
     updated_at |-> PyDt(db_item.updated_at)]

dict_to_showtime_read(db_item) ==
    [showtime_id |-> db_to_uuid(db_item.showtime_id),
     screen_id |-> db_to_uuid(db_item.screen_id),
     movie_id |-> PyInt(db_item.movie_id),
     start_time |-> PyDt(db_item.start_time),
     seats_booked |-> PyInt(db_item.seats_booked),
     created_at |-> PyDt(db_item.created_at),
     updated_at |-> PyDt(db_item.updated_at)]

----------------------------------------------------------------------------
(* schemas: the pydantic validation of the Read models built from a row *)

\* schemas/cinema.py CinemaRead: cinema_id is an int field.  pydantic converts
\* no UUID to int: a UUID value there raises ValidationError.
CinemaRead_valid(d) ==
    /\ IsInt(d.cinema_id)
    /\ IsStr(d.name)
    /\ IsDt(d.created_at)
    /\ IsDt(d.updated_at)

\* schemas/showtime.py ShowtimeRead: int ids and a required price.
ShowtimeRead_valid(d) ==
    /\ IsInt(d.showtime_id)
    /\ IsInt(d.screen_id)
    /\ IsInt(d.movie_id)
    /\ IsDt(d.start_time)
    /\ "price" \in DOMAIN d
    /\ IsInt(d.seats_booked)

\* schemas/theatre.py and schemas/screen.py are not among the sources: TheatreRead
\* and ScreenRead are taken to accept what the converters build.
TheatreRead_valid(d) ==
    /\ IsUuid(d.theatre_id)
    /\ IsUuid(d.cinema_id)
    /\ IsStr(d.name)

ScreenRead_valid(d) ==
    /\ IsUuid(d.screen_id)
    /\ IsUuid(d.theatre_id)
    /\ IsInt(d.num_rows)

----------------------------------------------------------------------------
(* database.py: BaseModel *)

\* soft_delete(): the flag and the timestamp.
soft_delete(row) == [row EXCEPT !.is_deleted = TRUE, !.deleted_at = Some(now)]

\* db.commit() of a loaded row: the session flushes an UPDATE only when an
\* attribute differs from the loaded value, and onupdate=datetime.utcnow sets
\* updated_at in that UPDATE.
db_commit(loaded, changed) ==
    IF changed = loaded THEN loaded ELSE [changed EXCEPT !.updated_at = now]

\* The id a request path addresses:
\* int(str(uuid).replace('-', '')[:8], 16) % (10**9).
IdModulus == 1000000000
path_id_int(uuid) == uuid[2] % IdModulus

----------------------------------------------------------------------------
(* The client and the HTTP exchange *)

\* The UUID path ids a client sends: a UUID whose first 8 hex digits write a
\* row id, and the id of a representation (int_to_uuid of row id 1).
PathUuids == {PyUuid(i, 0) : i \in 1..MaxRows} \cup {int_to_uuid(1)}

\* The int path ids a client sends to /screens: the row ids, and 0, no row's.
PathInts == 0..MaxRows

\* The If-Match / If-None-Match a client sends: none, a tag that is no
\* resource's, or the tag it just received.
HeaderChoices == {None, Some(BogusTag), resp.etag}

\* A request body that FastAPI cannot validate against the handler's model:
\* the request is answered 422 and the handler does not run.
InvalidBody == [invalid |-> TRUE]

NoResponse ==
    [seq |-> 0, coll |-> "", op |-> "", path |-> PyUuid(0, 0), tag |-> None,
     status |-> 0, etag |-> None, body |-> None]

\* A request on collection coll and its response.  tag is the request's
\* If-Match or If-None-Match; etag and body are None when the response has none.
\* seq tells a request from the one before it.
Response(coll, op, path, tag, status, etag, body) ==
    [seq |-> 1 - resp.seq, coll |-> coll, op |-> op, path |-> path, tag |-> tag,
     status |-> status, etag |-> etag, body |-> body]

\* The table after a service call committed row (or found no row to commit).
Stored(table, id, row) == IF row = None THEN table ELSE [table EXCEPT ![id] = row[1]]

----------------------------------------------------------------------------
(* The conditional-request logic, as each PATCH, PUT, DELETE and GET handler
   writes it *)

\* A PATCH and PUT check that takes no If-Match for the current tag.
update_precondition_never_matching(found, valid, current, if_match) ==
    IF ~found THEN 404
    ELSE IF ~valid THEN 500
    ELSE IF if_match = None THEN 428
    ELSE 412

\* PATCH and PUT: 404 when the row is not found, 500 when the Read model
\* rejects the row's dict, 428 without If-Match, 412 when If-Match is not the
\* tag of the row as stored; 200 lets the update proceed.
\* current is the row's representation, read only when the row was found.
update_precondition(found, valid, current, if_match) ==
    IF ~found THEN 404
    ELSE IF ~valid THEN 500
    ELSE IF if_match = None THEN 428
    ELSE IF if_match # Some(calc_etag(current)) THEN 412
    ELSE 200

\* DELETE: If-Match is optional.
delete_precondition(found, valid, current, if_match) ==
    IF ~found THEN 404
    ELSE IF ~valid THEN 500
    ELSE IF if_match # None /\ if_match # Some(calc_etag(current)) THEN 412
    ELSE 200

\* A GET handler that never compares If-None-Match with the current tag.
get_status_without_if_none_match(found, valid, current, if_none_match) ==
    IF ~found THEN 404
    ELSE IF ~valid THEN 500
    ELSE 200

\* GET: 304 when If-None-Match is the current tag.
get_status(found, valid, current, if_none_match) ==
    IF ~found THEN 404
    ELSE IF ~valid THEN 500
    ELSE IF if_none_match = Some(calc_etag(current)) THEN 304
    ELSE 200

----------------------------------------------------------------------------
(* services/theatreDataService.py *)

\* A query without the is_deleted filter.
TheatreDataService_get_all_theatres_with_deleted == db_theatres

TheatreDataService_get_all_theatres == SelectSeq(db_theatres, LAMBDA t : ~t.is_deleted)

\* A get_theatre_by_id whose query lacks the is_deleted == False filter.
get_theatre_by_id_without_filter(theatre_id) ==
    IF theatre_id \in DOMAIN db_theatres
    THEN Some(db_theatres[theatre_id])
    ELSE None

TheatreDataService_get_theatre_by_id(theatre_id) ==
    IF theatre_id \in DOMAIN db_theatres /\ ~db_theatres[theatre_id].is_deleted
    THEN Some(db_theatres[theatre_id])
    ELSE None

TheatreDataService_get_theatres_by_cinema(cinema_id) ==
    SelectSeq(db_theatres, LAMBDA t : t.cinema_id = cinema_id /\ ~t.is_deleted)

\* create_theatre: the row INSERTed (autoincrement id, column defaults).
TheatreDataService_create_theatre(cinema_id, name, address, screen_count, created_by) ==
    [theatre_id |-> Len(db_theatres) + 1, cinema_id |-> cinema_id, name |-> name,
     address |-> address, screen_count |-> screen_count,
     created_at |-> now, updated_at |-> now, is_deleted |-> FALSE,
     deleted_at |-> None, created_by |-> created_by]

\* update_theatre: None when the row is not found, else the row committed.
TheatreDataService_update_theatre(theatre_id, name, address, screen_count) ==
    LET theatre == TheatreDataService_get_theatre_by_id(theatre_id) IN
    IF theatre = None THEN None
    ELSE Some(db_commit(theatre[1],
              [theatre[1] EXCEPT
                   !.name = IF name # None THEN name[1] ELSE @,
                   !.address = IF address # None THEN address[1] ELSE @,
                   !.screen_count = IF screen_count # None THEN screen_count[1] ELSE @]))

\* delete_theatre: None when the row is not found (False), else the row committed.
TheatreDataService_delete_theatre(theatre_id) ==
    LET theatre == TheatreDataService_get_theatre_by_id(theatre_id) IN
    IF theatre = None THEN None
    ELSE Some(db_commit(theatre[1], soft_delete(theatre[1])))

----------------------------------------------------------------------------
(* routers/theatre_routes.py *)

TheatreCreatePayloads ==
    [name : Names, address : {Address}, screenCount : Counts]

\* The bodies of a PATCH: no field, a name, or a screenCount.
TheatreUpdatePayloads ==
    {[name |-> None, address |-> None, screenCount |-> None]}
    \cup {[name |-> Some(n), address |-> None, screenCount |-> None] : n \in Names}
    \cup {[name |-> None, address |-> None, screenCount |-> Some(c)] : c \in Counts}

UnchangedButTheatres ==
    UNCHANGED <<db_cinemas, db_screens, db_showtimes, theatres, cinemas, next_uuid, now,
                focus, writers>>

\* POST /theatres.  cinema_id=1 is a foreign key: without a row of cinemas
\* with that id the INSERT fails.
theatre_routes_create_theatre(theatre) ==
    /\ focus \in {"theatres", "references"}
    /\ Len(db_theatres) < MaxRows
    /\ UnchangedButTheatres
    /\ IF theatre = InvalidBody
       THEN /\ UNCHANGED db_theatres
            /\ resp' = Response("theatres", "POST", PyUuid(0, 0), None, 422, None, None)
       ELSE IF 1 \notin DOMAIN db_cinemas
       THEN /\ UNCHANGED db_theatres
            /\ resp' = Response("theatres", "POST", PyUuid(0, 0), None, 500, None, None)
       ELSE LET new_theatre == TheatreDataService_create_theatre(
                                   1, theatre.name, theatre.address, theatre.screenCount, 1)
                theatre_read == dict_to_theatre_read(new_theatre)
            IN /\ db_theatres' = Append(db_theatres, new_theatre)
               /\ resp' = Response("theatres", "POST", PyUuid(0, 0), None, 201,
                                   Some(calc_etag(theatre_read)), Some(theatre_read))

\* GET /theatres without query parameters: every row that is not deleted.
theatre_routes_list_theatres ==
    /\ focus = "theatres"
    /\ UnchangedButTheatres
    /\ UNCHANGED db_theatres
    /\ LET rows == TheatreDataService_get_all_theatres
           items == [i \in DOMAIN rows |-> dict_to_theatre_read(rows[i])]
       IN resp' = Response("theatres", "LIST", PyUuid(0, 0), None,
                           IF \A i \in DOMAIN items : TheatreRead_valid(items[i])
                           THEN 200 ELSE 500,
                           None, Some(items))

\* A GET handler that stamps the row it reads: updated_at is set to the time of
\* the read and committed.
theatre_routes_get_theatre_stamping_the_row(theatre_id, if_none_match) ==
    /\ focus = "theatres"
    /\ UnchangedButTheatres
    /\ LET theatre == TheatreDataService_get_theatre_by_id(path_id_int(theatre_id))
           found == theatre # None
           item == dict_to_theatre_read(theatre[1])
           status == get_status(found, found /\ TheatreRead_valid(item), item, if_none_match)
       IN /\ db_theatres' = IF found
                            THEN [db_theatres EXCEPT ![path_id_int(theatre_id)].updated_at = now]
                            ELSE db_theatres
          /\ resp' = Response("theatres", "GET", theatre_id, if_none_match, status,
                              IF status \in {200, 304} THEN Some(calc_etag(item)) ELSE None,
                              IF status = 200 THEN Some(item) ELSE None)

\* GET /theatres/{theatre_id}
theatre_routes_get_theatre(theatre_id, if_none_match) ==
    /\ focus = "theatres"
    /\ UnchangedButTheatres
    /\ UNCHANGED db_theatres
    /\ LET theatre == TheatreDataService_get_theatre_by_id(path_id_int(theatre_id))
           found == theatre # None
           item == dict_to_theatre_read(theatre[1])
           status == get_status(found, found /\ TheatreRead_valid(item), item, if_none_match)
       IN resp' = Response("theatres", "GET", theatre_id, if_none_match, status,
                           IF status \in {200, 304} THEN Some(calc_etag(item)) ELSE None,
                           IF status = 200 THEN Some(item) ELSE None)

\* The checks of PATCH and PUT before the service is called: the status they give.
theatre_routes_update_status(theatre_id, if_match) ==
    LET theatre == TheatreDataService_get_theatre_by_id(path_id_int(theatre_id))
        found == theatre # None
        existing == dict_to_theatre_read(theatre[1])
    IN update_precondition(found, found /\ TheatreRead_valid(existing), existing, if_match)

\* PATCH and PUT once the checks have passed: service.update_theatre, then the
\* response built from the row it returns.
theatre_routes_apply_update(op, theatre_id, if_match, name, address, screen_count) ==
    LET updated_theatre == TheatreDataService_update_theatre(
                               path_id_int(theatre_id), name, address, screen_count)
        result == dict_to_theatre_read(updated_theatre[1])
    IN /\ db_theatres' = Stored(db_theatres, path_id_int(theatre_id), updated_theatre)
       /\ resp' = IF updated_theatre = None
                  THEN Response("theatres", op, theatre_id, if_match, 500, None, None)
                  ELSE Response("theatres", op, theatre_id, if_match, 200,
                                Some(calc_etag(result)), Some(result))

\* PATCH /theatres/{theatre_id}
theatre_routes_update_theatre(theatre_id, update, if_match) ==
    /\ focus = "theatres"
    /\ UnchangedButTheatres
    /\ LET status == IF update = InvalidBody THEN 422
                     ELSE theatre_routes_update_status(theatre_id, if_match)
       IN IF status # 200
          THEN /\ UNCHANGED db_theatres
               /\ resp' = Response("theatres", "PATCH", theatre_id, if_match, status, None, None)
          ELSE theatre_routes_apply_update("PATCH", theatre_id, if_match,
                                           update.name, update.address, update.screenCount)

\* PUT /theatres/{theatre_id}
theatre_routes_replace_theatre(theatre_id, theatre, if_match) ==
    /\ focus = "theatres"
    /\ UnchangedButTheatres
    /\ LET status == IF theatre = InvalidBody THEN 422
                     ELSE theatre_routes_update_status(theatre_id, if_match)
       IN IF status # 200
          THEN /\ UNCHANGED db_theatres
               /\ resp' = Response("theatres", "PUT", theatre_id, if_match, status, None, None)
          ELSE theatre_routes_apply_update("PUT", theatre_id, if_match, Some(theatre.name),
                                           Some(theatre.address), Some(theatre.screenCount))

\* DELETE /theatres/{theatre_id}
theatre_routes_delete_theatre(theatre_id, if_match) ==
    /\ focus \in {"theatres", "references"}
    /\ UnchangedButTheatres
    /\ LET theatre == TheatreDataService_get_theatre_by_id(path_id_int(theatre_id))
           found == theatre # None
           existing == dict_to_theatre_read(theatre[1])
           status == delete_precondition(found, found /\ TheatreRead_valid(existing),
                                         existing, if_match)
           deleted == TheatreDataService_delete_theatre(path_id_int(theatre_id))
       IN IF status # 200
          THEN /\ UNCHANGED db_theatres
               /\ resp' = Response("theatres", "DELETE", theatre_id, if_match, status, None, None)
          ELSE /\ db_theatres' = Stored(db_theatres, path_id_int(theatre_id), deleted)
               /\ resp' = Response("theatres", "DELETE", theatre_id, if_match,
                                   IF deleted = None THEN 500 ELSE 200, None, None)

----------------------------------------------------------------------------
(* services/screenDataService.py *)

ScreenDataService_get_all_screens == SelectSeq(db_screens, LAMBDA t : ~t.is_deleted)

ScreenDataService_get_screen_by_id(screen_id) ==
    IF screen_id \in DOMAIN db_screens /\ ~db_screens[screen_id].is_deleted
    THEN Some(db_screens[screen_id])
    ELSE None

ScreenDataService_create_screen(theatre_id, screen_number, num_rows, num_cols, created_by) ==
    [screen_id |-> Len(db_screens) + 1, theatre_id |-> theatre_id,
     screen_number |-> screen_number, num_rows |-> num_rows, num_cols |-> num_cols,
     created_at |-> now, updated_at |-> now, is_deleted |-> FALSE,
     deleted_at |-> None, created_by |-> created_by]

ScreenDataService_update_screen(screen_id, screen_number, num_rows, num_cols) ==
    LET screen == ScreenDataService_get_screen_by_id(screen_id) IN
    IF screen = None THEN None
    ELSE Some(db_commit(screen[1],
              [screen[1] EXCEPT
                   !.screen_number = IF screen_number # None THEN screen_number[1] ELSE @,
                   !.num_rows = IF num_rows # None THEN num_rows[1] ELSE @,
                   !.num_cols = IF num_cols # None THEN num_cols[1] ELSE @]))

ScreenDataService_delete_screen(screen_id) ==
    LET screen == ScreenDataService_get_screen_by_id(screen_id) IN
    IF screen = None THEN None
    ELSE Some(db_commit(screen[1], soft_delete(screen[1])))

----------------------------------------------------------------------------
(* routers/screen_routes.py *)

ScreenNumbers == {"1", "2"}
Seats == {5}

ScreenCreatePayloads ==
    [screen_number : ScreenNumbers, num_rows : Seats, num_cols : Seats]

\* The bodies of a PATCH: no field, a screen_number, or a num_rows.
ScreenUpdatePayloads ==
    {[screen_number |-> None, num_rows |-> None, num_cols |-> None]}
    \cup {[screen_number |-> Some(n), num_rows |-> None, num_cols |-> None] :
              n \in ScreenNumbers}
    \cup {[screen_number |-> None, num_rows |-> Some(c), num_cols |-> None] : c \in Seats}

UnchangedButScreens ==
    UNCHANGED <<db_cinemas, db_theatres, db_showtimes, theatres, cinemas, next_uuid, now,
                focus, writers>>

\* POST /screens.  theatre_id=1 is a foreign key to theatres.
screen_routes_create_screen(screen) ==
    /\ focus \in {"screens", "references"}
    /\ Len(db_screens) < MaxRows
    /\ UnchangedButScreens
    /\ IF screen = InvalidBody
       THEN /\ UNCHANGED db_screens
            /\ resp' = Response("screens", "POST", PyInt(0), None, 422, None, None)
       ELSE IF 1 \notin DOMAIN db_theatres
       THEN /\ UNCHANGED db_screens
            /\ resp' = Response("screens", "POST", PyInt(0), None, 500, None, None)
       ELSE LET screen_obj == ScreenDataService_create_screen(
                                  1, screen.screen_number, screen.num_rows, screen.num_cols, 1)
                new_screen == dict_to_screen_read(screen_obj)
            IN /\ db_screens' = Append(db_screens, screen_obj)
               /\ resp' = Response("screens", "POST", PyInt(0), None, 201,
                                   Some(calc_etag(new_screen)), Some(new_screen))

\* GET /screens without query parameters: every row that is not deleted.
screen_routes_list_screens ==
    /\ focus = "screens"
    /\ UnchangedButScreens
    /\ UNCHANGED db_screens
    /\ LET rows == ScreenDataService_get_all_screens
           items == [i \in DOMAIN rows |-> dict_to_screen_read(rows[i])]
       IN resp' = Response("screens", "LIST", PyInt(0), None,
                           IF \A i \in DOMAIN items : ScreenRead_valid(items[i])
                           THEN 200 ELSE 500,
                           None, Some(items))

\* GET /screens/{screen_id}
screen_routes_get_screen(screen_id, if_none_match) ==
    /\ focus = "screens"
    /\ UnchangedButScreens
    /\ UNCHANGED db_screens
    /\ LET db_item == ScreenDataService_get_screen_by_id(screen_id)
           found == db_item # None
           item == dict_to_screen_read(db_item[1])
           status == get_status(found, found /\ ScreenRead_valid(item), item, if_none_match)
       IN resp' = Response("screens", "GET", PyInt(screen_id), if_none_match, status,
                           IF status \in {200, 304} THEN Some(calc_etag(item)) ELSE None,
                           IF status = 200 THEN Some(item) ELSE None)

\* The checks of PATCH and PUT before the service is called.
screen_routes_update_status(screen_id, if_match) ==
    LET db_item == ScreenDataService_get_screen_by_id(screen_id)
        found == db_item # None
        existing == dict_to_screen_read(db_item[1])
    IN update_precondition(found, found /\ ScreenRead_valid(existing), existing, if_match)

\* PATCH and PUT once the checks have passed: service.update_screen, then the
\* row is read again and the response built from it.
screen_routes_apply_update(op, screen_id, if_match, screen_number, num_rows, num_cols) ==
    LET success == ScreenDataService_update_screen(screen_id, screen_number, num_rows, num_cols)
        updated == dict_to_screen_read(success[1])
    IN /\ db_screens' = Stored(db_screens, screen_id, success)
       /\ resp' = IF success = None
                  THEN Response("screens", op, PyInt(screen_id), if_match, 500, None, None)
                  ELSE Response("screens", op, PyInt(screen_id), if_match, 200,
                                Some(calc_etag(updated)), Some(updated))

\* PATCH /screens/{screen_id}
screen_routes_update_screen(screen_id, update, if_match) ==
    /\ focus = "screens"
    /\ UnchangedButScreens
    /\ LET status == IF update = InvalidBody THEN 422
                     ELSE screen_routes_update_status(screen_id, if_match)
       IN IF status # 200
          THEN /\ UNCHANGED db_screens
               /\ resp' = Response("screens", "PATCH", PyInt(screen_id), if_match,
                                   status, None, None)
          ELSE screen_routes_apply_update("PATCH", screen_id, if_match,
                                          update.screen_number, update.num_rows, update.num_cols)

\* PUT /screens/{screen_id}
screen_routes_replace_screen(screen_id, screen, if_match) ==
    /\ focus = "screens"
    /\ UnchangedButScreens
    /\ LET status == IF screen = InvalidBody THEN 422
                     ELSE screen_routes_update_status(screen_id, if_match)
       IN IF status # 200
          THEN /\ UNCHANGED db_screens
               /\ resp' = Response("screens", "PUT", PyInt(screen_id), if_match,
                                   status, None, None)
          ELSE screen_routes_apply_update("PUT", screen_id, if_match,
                                          Some(screen.screen_number), Some(screen.num_rows),
                                          Some(screen.num_cols))

\* DELETE /screens/{screen_id}
screen_routes_delete_screen(screen_id, if_match) ==
    /\ focus \in {"screens", "references"}
    /\ UnchangedButScreens
    /\ LET db_item == ScreenDataService_get_screen_by_id(screen_id)
           found == db_item # None
           existing == dict_to_screen_read(db_item[1])
           status == delete_precondition(found, found /\ ScreenRead_valid(existing),
                                         existing, if_match)
           deleted == ScreenDataService_delete_screen(screen_id)
       IN IF status # 200
          THEN /\ UNCHANGED db_screens
               /\ resp' = Response("screens", "DELETE", PyInt(screen_id), if_match,
                                   status, None, None)
          ELSE /\ db_screens' = Stored(db_screens, screen_id, deleted)
               /\ resp' = Response("screens", "DELETE", PyInt(screen_id), if_match,
                                   IF deleted = None THEN 500 ELSE 200, None, None)

----------------------------------------------------------------------------
(* services/cinemaDataService.py *)

CinemaDataService_get_all_cinemas == SelectSeq(db_cinemas, LAMBDA t : ~t.is_deleted)

CinemaDataService_get_cinema_by_id(cinema_id) ==
    IF cinema_id \in DOMAIN db_cinemas /\ ~db_cinemas[cinema_id].is_deleted
    THEN Some(db_cinemas[cinema_id])
    ELSE None

CinemaDataService_create_cinema(name, created_by) ==
    [cinema_id |-> Len(db_cinemas) + 1, name |-> name,
     created_at |-> now, updated_at |-> now, is_deleted |-> FALSE,
     deleted_at |-> None, created_by |-> created_by]

CinemaDataService_update_cinema(cinema_id, name) ==
    LET cinema == CinemaDataService_get_cinema_by_id(cinema_id) IN
    IF cinema = None THEN None
    ELSE Some(db_commit(cinema[1],
              [cinema[1] EXCEPT !.name = IF name # None THEN name[1] ELSE @]))

CinemaDataService_delete_cinema(cinema_id) ==
    LET cinema == CinemaDataService_get_cinema_by_id(cinema_id) IN
    IF cinema = None THEN None
    ELSE Some(db_commit(cinema[1], soft_delete(cinema[1])))

----------------------------------------------------------------------------
(* routers/cinema_routes.py *)

CinemaCreatePayloads == [name : Names]
CinemaUpdatePayloads == [name : {None} \cup {Some(n) : n \in Names}]

UnchangedButCinemas ==
    UNCHANGED <<db_theatres, db_screens, db_showtimes, theatres, cinemas, next_uuid, now,
                focus, writers>>

\* POST /cinemas.  The service commits the row; the handler then calls
\* get_cinema_by_id(cinema_id) without the session, a TypeError: 500.
cinema_routes_create_cinema(cinema) ==
    /\ focus \in {"cinemas", "references"}
    /\ Len(db_cinemas) < MaxRows
    /\ UnchangedButCinemas
    /\ IF cinema = InvalidBody
       THEN /\ UNCHANGED db_cinemas
            /\ resp' = Response("cinemas", "POST", PyUuid(0, 0), None, 422, None, None)
       ELSE /\ db_cinemas' = Append(db_cinemas, CinemaDataService_create_cinema(cinema.name, 1))
            /\ resp' = Response("cinemas", "POST", PyUuid(0, 0), None, 500, None, None)

\* GET /cinemas without query parameters: CinemaRead is built of every row that
\* is not deleted.
cinema_routes_list_cinemas ==
    /\ focus = "cinemas"
    /\ UnchangedButCinemas
    /\ UNCHANGED db_cinemas
    /\ LET rows == CinemaDataService_get_all_cinemas
           items == [i \in DOMAIN rows |-> dict_to_cinema_read(rows[i])]
       IN resp' = IF \A i \in DOMAIN items : CinemaRead_valid(items[i])
                  THEN Response("cinemas", "LIST", PyUuid(0, 0), None, 200, None, Some(items))
                  ELSE Response("cinemas", "LIST", PyUuid(0, 0), None, 500, None, None)

\* GET /cinemas/{cinema_id}
cinema_routes_get_cinema(cinema_id, if_none_match) ==
    /\ focus = "cinemas"
    /\ UnchangedButCinemas
    /\ UNCHANGED db_cinemas
    /\ LET db_item == CinemaDataService_get_cinema_by_id(path_id_int(cinema_id))
           found == db_item # None
           item == dict_to_cinema_read(db_item[1])
           status == get_status(found, found /\ CinemaRead_valid(item), item, if_none_match)
       IN resp' = Response("cinemas", "GET", cinema_id, if_none_match, status,
                           IF status \in {200, 304} THEN Some(calc_etag(item)) ELSE None,
                           IF status = 200 THEN Some(item) ELSE None)

\* The checks of PATCH and PUT before the service is called.
cinema_routes_update_status(cinema_id, if_match) ==
    LET db_item == CinemaDataService_get_cinema_by_id(path_id_int(cinema_id))
        found == db_item # None
        existing == dict_to_cinema_read(db_item[1])
    IN update_precondition(found, found /\ CinemaRead_valid(existing), existing, if_match)

\* PATCH and PUT once the checks have passed: service.update_cinema commits, then
\* get_cinema_by_id(cinema_id_int) is called without the session: 500.
cinema_routes_apply_update(op, cinema_id, if_match, name) ==
    LET success == CinemaDataService_update_cinema(path_id_int(cinema_id), name)
    IN /\ db_cinemas' = Stored(db_cinemas, path_id_int(cinema_id), success)
       /\ resp' = Response("cinemas", op, cinema_id, if_match, 500, None, None)

\* PATCH /cinemas/{cinema_id}
cinema_routes_update_cinema(cinema_id, update, if_match) ==
    /\ focus = "cinemas"
    /\ UnchangedButCinemas
    /\ LET status == IF update = InvalidBody THEN 422
                     ELSE cinema_routes_update_status(cinema_id, if_match)
       IN IF status # 200
          THEN /\ UNCHANGED db_cinemas
               /\ resp' = Response("cinemas", "PATCH", cinema_id, if_match, status, None, None)
          ELSE cinema_routes_apply_update("PATCH", cinema_id, if_match, update.name)

\* PUT /cinemas/{cinema_id}
cinema_routes_replace_cinema(cinema_id, cinema, if_match) ==
    /\ focus = "cinemas"
    /\ UnchangedButCinemas
    /\ LET status == IF cinema = InvalidBody THEN 422
                     ELSE cinema_routes_update_status(cinema_id, if_match)
       IN IF status # 200
          THEN /\ UNCHANGED db_cinemas
               /\ resp' = Response("cinemas", "PUT", cinema_id, if_match, status, None, None)
          ELSE cinema_routes_apply_update("PUT", cinema_id, if_match, Some(cinema.name))

\* DELETE /cinemas/{cinema_id}
cinema_routes_delete_cinema(cinema_id, if_match) ==
    /\ focus \in {"cinemas", "references"}
    /\ UnchangedButCinemas
    /\ LET db_item == CinemaDataService_get_cinema_by_id(path_id_int(cinema_id))
           found == db_item # None
           existing == dict_to_cinema_read(db_item[1])
           status == delete_precondition(found, found /\ CinemaRead_valid(existing),
                                         existing, if_match)
           deleted == CinemaDataService_delete_cinema(path_id_int(cinema_id))
       IN IF status # 200
          THEN /\ UNCHANGED db_cinemas
               /\ resp' = Response("cinemas", "DELETE", cinema_id, if_match, status, None, None)
          ELSE /\ db_cinemas' = Stored(db_cinemas, path_id_int(cinema_id), deleted)
               /\ resp' = Response("cinemas", "DELETE", cinema_id, if_match,
                                   IF deleted = None THEN 500 ELSE 200, None, None)

----------------------------------------------------------------------------
(* services/showtimeDataService.py *)

\* .order_by(Showtime.start_time)
order_by_start_time(rows) == SortSeq(rows, LAMBDA a, b : a.start_time < b.start_time)

ShowtimeDataService_get_all_showtimes ==
    order_by_start_time(SelectSeq(db_showtimes, LAMBDA t : ~t.is_deleted))

ShowtimeDataService_get_showtime_by_id(showtime_id) ==
    IF showtime_id \in DOMAIN db_showtimes /\ ~db_showtimes[showtime_id].is_deleted
    THEN Some(db_showtimes[showtime_id])
    ELSE None

ShowtimeDataService_get_showtimes_by_screen(screen_id) ==
    order_by_start_time(SelectSeq(db_showtimes,
        LAMBDA t : t.screen_id = screen_id /\ ~t.is_deleted))

ShowtimeDataService_get_showtimes_by_movie(movie_id) ==
    order_by_start_time(SelectSeq(db_showtimes,
        LAMBDA t : t.movie_id = movie_id /\ ~t.is_deleted))

ShowtimeDataService_create_showtime(screen_id, movie_id, start_time, seats_booked, price, created_by) ==
    [showtime_id |-> Len(db_showtimes) + 1, screen_id |-> screen_id,
     movie_id |-> movie_id, start_time |-> start_time, price |-> price,
     seats_booked |-> seats_booked,
     created_at |-> now, updated_at |-> now, is_deleted |-> FALSE,
     deleted_at |-> None, created_by |-> created_by]

\* update_showtime has no screen_id parameter: the screen of a showtime is never
\* reassigned.
ShowtimeDataService_update_showtime(showtime_id, movie_id, start_time, seats_booked, price) ==
    LET showtime == ShowtimeDataService_get_showtime_by_id(showtime_id) IN
    IF showtime = None THEN None
    ELSE Some(db_commit(showtime[1],
              [showtime[1] EXCEPT
                   !.movie_id = IF movie_id # None THEN movie_id[1] ELSE @,
                   !.start_time = IF start_time # None THEN start_time[1] ELSE @,
                   !.seats_booked = IF seats_booked # None THEN seats_booked[1] ELSE @,
                   !.price = IF price # None THEN price[1] ELSE @]))

\* showtime.seats_booked += seat_delta, with no comparison to anything.
ShowtimeDataService_update_seat_count(showtime_id, seat_delta) ==
    LET showtime == ShowtimeDataService_get_showtime_by_id(showtime_id) IN
    IF showtime = None THEN None
    ELSE Some(db_commit(showtime[1],
              [showtime[1] EXCEPT !.seats_booked = @ + seat_delta]))

ShowtimeDataService_delete_showtime(showtime_id) ==
    LET showtime == ShowtimeDataService_get_showtime_by_id(showtime_id) IN
    IF showtime = None THEN None
    ELSE Some(db_commit(showtime[1], soft_delete(showtime[1])))

----------------------------------------------------------------------------
(* routers/showtime_routes.py *)

\* No handler of this router takes the database session, and each one's first
\* service call leaves out the service's db parameter: a TypeError, answered 500
\* before any row is read.  A body that fails validation is answered 422 before
\* the handler runs.
showtime_routes_fail(op, showtime_id, tag, body) ==
    /\ focus = "showtimes"
    /\ UNCHANGED <<db_cinemas, db_theatres, db_screens, db_showtimes, theatres,
                   cinemas, next_uuid, now, focus, writers>>
    /\ resp' = Response("showtimes", op, showtime_id, tag,
                        IF body = InvalidBody THEN 422 ELSE 500, None, None)

ShowtimeCreatePayloads == [screen_id : {PyUuid(1, 0)}, movie_id : {1}, price : {10}]
ShowtimeUpdatePayloads == [movie_id : {None, Some(1)}]

\* POST /showtimes: screen_service.get_screen_by_id(screen_id_int)
showtime_routes_create_showtime(showtime) ==
    showtime_routes_fail("POST", PyUuid(0, 0), None, showtime)

\* GET /showtimes/{showtime_id}: db_service.get_showtime_by_id(showtime_id_int)
showtime_routes_get_showtime(showtime_id, if_none_match) ==
    showtime_routes_fail("GET", showtime_id, if_none_match, None)

\* PATCH /showtimes/{showtime_id}
showtime_routes_update_showtime(showtime_id, update, if_match) ==
    showtime_routes_fail("PATCH", showtime_id, if_match, update)

\* PUT /showtimes/{showtime_id}
showtime_routes_replace_showtime(showtime_id, showtime, if_match) ==
    showtime_routes_fail("PUT", showtime_id, if_match, showtime)

\* DELETE /showtimes/{showtime_id}
showtime_routes_delete_showtime(showtime_id, if_match) ==
    showtime_routes_fail("DELETE", showtime_id, if_match, None)

\* GET /showtimes: db_service.get_showtimes_by_screen(screen_id_int),
\* get_showtimes_by_movie(movie_id) or get_all_showtimes(), each without db.
showtime_routes_list_showtimes(screen_id, movie_id) ==
    showtime_routes_fail("LIST", PyUuid(0, 0), None, None)

\* The deltas of a seat adjustment.
SeatDeltas == {-2, -1, 1, 2}
SeatUpdateRequests == [count : SeatDeltas]

\* POST /showtimes/{showtime_id}/seats: db_service.get_showtime_by_id(showtime_id_int)
\* at the handler's first service call; the comparison of new_booked_count with 0
\* and total_seats below it is never reached.
showtime_routes_update_seat_count(showtime_id, seat_update) ==
    showtime_routes_fail("SEATS", showtime_id, None, seat_update)

\* GET /showtimes/{showtime_id}/availability: db_service.get_showtime_by_id(
\* showtime_id_int) at the handler's first service call; total_seats and
\* seats_available below it are never computed.
showtime_routes_get_seat_availability(showtime_id) ==
    showtime_routes_fail("AVAILABILITY", showtime_id, None, None)

----------------------------------------------------------------------------
(* main.py: the handlers over the in-memory dicts *)

\* dict operations: d[key] = value and del d[key].
dict_set(d, key, value) ==
    [k \in DOMAIN d \cup {key} |-> IF k = key THEN value ELSE d[k]]

dict_del(d, key) == [k \in DOMAIN d \ {key} |-> d[k]]

\* uuid4(): a UUID no earlier call returned.
uuid4 == PyUuid(next_uuid + 1, 0)

UnchangedButMain ==
    UNCHANGED <<db_cinemas, db_theatres, db_screens, db_showtimes, now, focus, writers>>

MainTheatrePayloads == [name : Names, address : {Address}]
MainTheatreUpdates == [name : {None} \cup {Some(n) : n \in Names}, address : {None}]

\* POST /theatres.  TheatreRead is models/theatre.py's, whose id field is named
\* id: reading new_theatre.theatre_id raises AttributeError, answered 500 with
\* nothing stored.
main_create_theatre(theatre) ==
    /\ focus = "main/theatres"
    /\ UnchangedButMain
    /\ UNCHANGED <<theatres, cinemas, next_uuid>>
    /\ resp' = Response("main/theatres", "POST", PyUuid(0, 0), None,
                        IF theatre = InvalidBody THEN 422 ELSE 500, None, None)

\* GET /theatres/{theatre_id}
main_get_theatre(theatre_id, if_none_match) ==
    /\ focus = "main/theatres"
    /\ UnchangedButMain
    /\ UNCHANGED <<theatres, cinemas, next_uuid>>
    /\ LET found == theatre_id \in DOMAIN theatres
           item == theatres[theatre_id]
           status == get_status(found, TRUE, item, if_none_match)
       IN resp' = Response("main/theatres", "GET", theatre_id, if_none_match, status,
                           IF status \in {200, 304} THEN Some(calc_etag(item)) ELSE None,
                           IF status = 200 THEN Some(item) ELSE None)

\* PATCH /theatres/{theatre_id}: updated_at is set on every update.
main_update_theatre(theatre_id, update, if_match) ==
    /\ focus = "main/theatres"
    /\ UnchangedButMain
    /\ UNCHANGED <<cinemas, next_uuid>>
    /\ LET found == theatre_id \in DOMAIN theatres
           existing == theatres[theatre_id]
           status == IF update = InvalidBody THEN 422
                     ELSE update_precondition(found, TRUE, existing, if_match)
           updated == [existing EXCEPT
                           !.name = IF update.name # None THEN PyStr(update.name[1]) ELSE @,
                           !.address = IF update.address # None
                                       THEN PyStr(update.address[1]) ELSE @,
                           !.updated_at = PyDt(now)]
       IN IF status # 200
          THEN /\ UNCHANGED theatres
               /\ resp' = Response("main/theatres", "PATCH", theatre_id, if_match,
                                   status, None, None)
          ELSE /\ theatres' = dict_set(theatres, theatre_id, updated)
               /\ resp' = Response("main/theatres", "PATCH", theatre_id, if_match, 200,
                                   Some(calc_etag(updated)), Some(updated))

\* PUT /theatres/{theatre_id}: created_at and updated_at are the existing ones.
main_replace_theatre(theatre_id, theatre, if_match) ==
    /\ focus = "main/theatres"
    /\ UnchangedButMain
    /\ UNCHANGED <<cinemas, next_uuid>>
    /\ LET found == theatre_id \in DOMAIN theatres
           existing == theatres[theatre_id]
           status == IF theatre = InvalidBody THEN 422
                     ELSE update_precondition(found, TRUE, existing, if_match)
           replacement == [existing EXCEPT !.name = PyStr(theatre.name),
                                           !.address = PyStr(theatre.address)]
       IN IF status # 200
          THEN /\ UNCHANGED theatres
               /\ resp' = Response("main/theatres", "PUT", theatre_id, if_match,
                                   status, None, None)
          ELSE /\ theatres' = dict_set(theatres, theatre_id, replacement)
               /\ resp' = Response("main/theatres", "PUT", theatre_id, if_match, 200,
                                   Some(calc_etag(replacement)), Some(replacement))

\* models/theatre.py TheatreRead: name, address, city, state, postal_code and
\* country are required; a keyword that is no field is ignored.
main_TheatreRead_valid(d) ==
    {"name", "address", "city", "state", "postal_code", "country"} \subseteq DOMAIN d

\* models/theatreDataService.py is not among the sources: its get_all_theatres()
\* is taken to return the rows of the table theatres that are not deleted.
main_TheatreDataService_get_all_theatres == SelectSeq(db_theatres, LAMBDA t : ~t.is_deleted)

\* GET /theatres of main.py: the rows of the database, not the dict theatres.  The
\* handler builds TheatreRead of theatre_id, name, address, cinema_id, screenCount
\* and the two timestamps of each row.
main_list_theatres ==
    /\ focus = "main/theatres"
    /\ UnchangedButMain
    /\ UNCHANGED <<theatres, cinemas, next_uuid>>
    /\ LET rows == main_TheatreDataService_get_all_theatres
           items == [i \in DOMAIN rows |-> dict_to_theatre_read(rows[i])]
       IN resp' = IF \A i \in DOMAIN items : main_TheatreRead_valid(items[i])
                  THEN Response("main/theatres", "LIST", PyUuid(0, 0), None, 200, None,
                                Some(items))
                  ELSE Response("main/theatres", "LIST", PyUuid(0, 0), None, 500, None, None)

\* DELETE /theatres/{theatre_id}: del theatres[theatre_id].
main_delete_theatre(theatre_id, if_match) ==
    /\ focus = "main/theatres"
    /\ UnchangedButMain
    /\ UNCHANGED <<cinemas, next_uuid>>
    /\ LET found == theatre_id \in DOMAIN theatres
           existing == theatres[theatre_id]
           status == delete_precondition(found, TRUE, existing, if_match)
       IN /\ theatres' = IF status = 200 THEN dict_del(theatres, theatre_id) ELSE theatres
          /\ resp' = Response("main/theatres", "DELETE", theatre_id, if_match,
                              status, None, None)

\* models/cinema.py is not among the sources: its CinemaRead is taken to have the
\* fields main.py uses, cinema_id (a uuid4 by default), name and the two timestamps.
main_CinemaRead(cinema_id, name) ==
    [cinema_id |-> cinema_id, name |-> PyStr(name),
     created_at |-> PyDt(now), updated_at |-> PyDt(now)]

\* POST /cinemas
main_create_cinema(cinema) ==
    /\ focus = "main/cinemas"
    /\ next_uuid < MaxRows
    /\ UnchangedButMain
    /\ UNCHANGED theatres
    /\ IF cinema = InvalidBody
       THEN /\ UNCHANGED <<cinemas, next_uuid>>
            /\ resp' = Response("main/cinemas", "POST", PyUuid(0, 0), None, 422, None, None)
       ELSE LET new_cinema == main_CinemaRead(uuid4, cinema.name)
            IN /\ cinemas' = dict_set(cinemas, new_cinema.cinema_id, new_cinema)
               /\ next_uuid' = next_uuid + 1
               /\ resp' = Response("main/cinemas", "POST", PyUuid(0, 0), None, 201,
                                   Some(calc_etag(new_cinema)), Some(new_cinema))

\* list(d.values()) of a dict of main.py: the values in the order their keys were
\* first set, which is the order of the uuid4 calls.
dict_values(d) ==
    LET keys == SelectSeq([i \in 1..next_uuid |-> PyUuid(i, 0)], LAMBDA k : k \in DOMAIN d)
    IN [i \in DOMAIN keys |-> d[keys[i]]]

\* GET /cinemas without query parameters: list(cinemas.values()).
main_list_cinemas ==
    /\ focus = "main/cinemas"
    /\ UnchangedButMain
    /\ UNCHANGED <<theatres, cinemas, next_uuid>>
    /\ resp' = Response("main/cinemas", "LIST", PyUuid(0, 0), None, 200, None,
                        Some(dict_values(cinemas)))

\* GET /cinemas/{cinema_id}
main_get_cinema(cinema_id, if_none_match) ==
    /\ focus = "main/cinemas"
    /\ UnchangedButMain
    /\ UNCHANGED <<theatres, cinemas, next_uuid>>
    /\ LET found == cinema_id \in DOMAIN cinemas
           item == cinemas[cinema_id]
           status == get_status(found, TRUE, item, if_none_match)
       IN resp' = Response("main/cinemas", "GET", cinema_id, if_none_match, status,
                           IF status \in {200, 304} THEN Some(calc_etag(item)) ELSE None,
                           IF status = 200 THEN Some(item) ELSE None)

\* PATCH /cinemas/{cinema_id}
main_update_cinema(cinema_id, update, if_match) ==
    /\ focus = "main/cinemas"
    /\ UnchangedButMain
    /\ UNCHANGED <<theatres, next_uuid>>
    /\ LET found == cinema_id \in DOMAIN cinemas
           existing == cinemas[cinema_id]
           status == IF update = InvalidBody THEN 422
                     ELSE update_precondition(found, TRUE, existing, if_match)
           updated == [existing EXCEPT
                           !.name = IF update.name # None THEN PyStr(update.name[1]) ELSE @,
                           !.updated_at = PyDt(now)]
       IN IF status # 200
          THEN /\ UNCHANGED cinemas
               /\ resp' = Response("main/cinemas", "PATCH", cinema_id, if_match,
                                   status, None, None)
          ELSE /\ cinemas' = dict_set(cinemas, cinema_id, updated)
               /\ resp' = Response("main/cinemas", "PATCH", cinema_id, if_match, 200,
                                   Some(calc_etag(updated)), Some(updated))

\* PUT /cinemas/{cinema_id}: a new CinemaRead with the path's id.
main_replace_cinema(cinema_id, cinema, if_match) ==
    /\ focus = "main/cinemas"
    /\ UnchangedButMain
    /\ UNCHANGED <<theatres, next_uuid>>
    /\ LET found == cinema_id \in DOMAIN cinemas
           existing == cinemas[cinema_id]
           status == IF cinema = InvalidBody THEN 422
                     ELSE update_precondition(found, TRUE, existing, if_match)
           replacement == main_CinemaRead(cinema_id, cinema.name)
       IN IF status # 200
          THEN /\ UNCHANGED cinemas
               /\ resp' = Response("main/cinemas", "PUT", cinema_id, if_match,
                                   status, None, None)
          ELSE /\ cinemas' = dict_set(cinemas, cinema_id, replacement)
               /\ resp' = Response("main/cinemas", "PUT", cinema_id, if_match, 200,
                                   Some(calc_etag(replacement)), Some(replacement))

\* DELETE /cinemas/{cinema_id}: del cinemas[cinema_id].
main_delete_cinema(cinema_id, if_match) ==
    /\ focus = "main/cinemas"
    /\ UnchangedButMain
    /\ UNCHANGED <<theatres, next_uuid>>
    /\ LET found == cinema_id \in DOMAIN cinemas
           existing == cinemas[cinema_id]
           status == delete_precondition(found, TRUE, existing, if_match)
       IN /\ cinemas' = IF status = 200 THEN dict_del(cinemas, cinema_id) ELSE cinemas
          /\ resp' = Response("main/cinemas", "DELETE", cinema_id, if_match,
                              status, None, None)

----------------------------------------------------------------------------
(* The stored resources, as a client addresses them *)

\* The stores.
Tables == <<db_cinemas, db_theatres, db_screens, db_showtimes, theatres, cinemas>>

\* The representation of the stored, not deleted row that path addresses in
\* collection coll (what the collection's converter builds from the row), or None.
StoredRep(coll, path) ==
    CASE coll = "theatres" ->
             LET r == TheatreDataService_get_theatre_by_id(path_id_int(path))
             IN IF r = None THEN None ELSE Some(dict_to_theatre_read(r[1]))
      [] coll = "screens" ->
             LET r == ScreenDataService_get_screen_by_id(path[2])
             IN IF r = None THEN None ELSE Some(dict_to_screen_read(r[1]))
      [] coll = "cinemas" ->
             LET r == CinemaDataService_get_cinema_by_id(path_id_int(path))
             IN IF r = None THEN None ELSE Some(dict_to_cinema_read(r[1]))
      [] coll = "showtimes" ->
             IF path_id_int(path) \in DOMAIN db_showtimes
                /\ ~db_showtimes[path_id_int(path)].is_deleted
             THEN Some(dict_to_showtime_read(db_showtimes[path_id_int(path)]))
             ELSE None
      [] coll = "main/theatres" ->
             IF path \in DOMAIN theatres THEN Some(theatres[path]) ELSE None
      [] coll = "main/cinemas" ->
             IF path \in DOMAIN cinemas THEN Some(cinemas[path]) ELSE None
      [] OTHER -> None

\* The tag of that representation.
StoredTag(coll, path) ==
    IF StoredRep(coll, path) = None THEN None
    ELSE Some(calc_etag(StoredRep(coll, path)[1]))

\* The If-Match / If-None-Match values of a request on path: HeaderChoices, and the
\* current tag, which a client can compute from the representation.
TagChoices(coll, path) == HeaderChoices \cup {StoredTag(coll, path)}

----------------------------------------------------------------------------
(* The clock and the sequential client *)

\* Time passes between two requests; two requests may also fall in one tick of
\* the clock.
Tick ==
    /\ now < MaxTime
    /\ now' = now + 1
    /\ UNCHANGED <<db_cinemas, db_theatres, db_screens, db_showtimes, theatres, cinemas,
                   next_uuid, resp, focus, writers>>

\* The collections: the four of the routers and the two dicts of main.py that the
\* model covers.
AllCollections == {"theatres", "screens", "cinemas", "showtimes",
                   "main/theatres", "main/cinemas"}

\* The rows POST /cinemas and POST /theatres stored before the client of a child
\* collection starts: cinema 1 is what POST /theatres refers to, theatre 1 what
\* POST /screens refers to.
SeedCinemas == <<[cinema_id |-> 1, name |-> "A", created_at |-> 0, updated_at |-> 0,
                  is_deleted |-> FALSE, deleted_at |-> None, created_by |-> 1]>>

SeedTheatres == <<[theatre_id |-> 1, cinema_id |-> 1, name |-> "A", address |-> Address,
                   screen_count |-> 1, created_at |-> 0, updated_at |-> 0,
                   is_deleted |-> FALSE, deleted_at |-> None, created_by |-> 1]>>

\* The screen and the showtimes that ScreenDataService.create_screen and
\* ShowtimeDataService.create_showtime, called with a session, stored before the
\* client of /showtimes starts (no handler of that router can store one): a screen
\* of 1 x 2 seats and one showtime on it with any booked count within the
\* capacity.
SeedScreens == <<[screen_id |-> 1, theatre_id |-> 1, screen_number |-> "1",
                  num_rows |-> 1, num_cols |-> 2, created_at |-> 0, updated_at |-> 0,
                  is_deleted |-> FALSE, deleted_at |-> None, created_by |-> 1]>>

SeedBooked == 0..2

SeedShowtimes(seats_booked) ==
    <<[showtime_id |-> 1, screen_id |-> 1, movie_id |-> 1, start_time |-> 0,
       price |-> 10, seats_booked |-> seats_booked, created_at |-> 0,
       updated_at |-> 0, is_deleted |-> FALSE, deleted_at |-> None, created_by |-> 1]>>

Init ==
    /\ focus \in AllCollections
    /\ db_cinemas = IF focus \in {"theatres", "screens", "showtimes"}
                    THEN SeedCinemas ELSE <<>>
    /\ db_theatres \in IF focus \in {"screens", "showtimes"} THEN {SeedTheatres}
                       ELSE IF focus = "main/theatres" THEN {<<>>, SeedTheatres}
                       ELSE {<<>>}
    /\ db_screens = IF focus = "showtimes" THEN SeedScreens ELSE <<>>
    /\ db_showtimes \in IF focus = "showtimes"
                        THEN {SeedShowtimes(b) : b \in SeedBooked} ELSE {<<>>}
    /\ theatres = <<>>
    /\ cinemas = <<>>
    /\ next_uuid = 0
    /\ now = 0
    /\ resp = NoResponse
    /\ writers = <<>>

Next ==
    \/ Tick
    \/ \E theatre \in TheatreCreatePayloads \cup {InvalidBody} :
           theatre_routes_create_theatre(theatre)
    \/ theatre_routes_list_theatres
    \/ \E theatre_id \in PathUuids :
       \E if_none_match \in TagChoices("theatres", theatre_id) :
           theatre_routes_get_theatre(theatre_id, if_none_match)
    \/ \E theatre_id \in PathUuids, update \in TheatreUpdatePayloads \cup {InvalidBody} :
       \E if_match \in TagChoices("theatres", theatre_id) :
           theatre_routes_update_theatre(theatre_id, update, if_match)
    \/ \E theatre_id \in PathUuids, theatre \in TheatreCreatePayloads \cup {InvalidBody} :
       \E if_match \in TagChoices("theatres", theatre_id) :
           theatre_routes_replace_theatre(theatre_id, theatre, if_match)
    \/ \E theatre_id \in PathUuids :
       \E if_match \in TagChoices("theatres", theatre_id) :
           theatre_routes_delete_theatre(theatre_id, if_match)
    \/ \E screen \in ScreenCreatePayloads \cup {InvalidBody} :
           screen_routes_create_screen(screen)
    \/ \E screen_id \in PathInts :
       \E if_none_match \in TagChoices("screens", PyInt(screen_id)) :
           screen_routes_get_screen(screen_id, if_none_match)
    \/ \E screen_id \in PathInts, update \in ScreenUpdatePayloads \cup {InvalidBody} :
       \E if_match \in TagChoices("screens", PyInt(screen_id)) :
           screen_routes_update_screen(screen_id, update, if_match)
    \/ \E screen_id \in PathInts, screen \in ScreenCreatePayloads \cup {InvalidBody} :
       \E if_match \in TagChoices("screens", PyInt(screen_id)) :
           screen_routes_replace_screen(screen_id, screen, if_match)
    \/ \E screen_id \in PathInts :
       \E if_match \in TagChoices("screens", PyInt(screen_id)) :
           screen_routes_delete_screen(screen_id, if_match)
    \/ screen_routes_list_screens
    \/ \E cinema \in CinemaCreatePayloads \cup {InvalidBody} :
           cinema_routes_create_cinema(cinema)
    \/ \E cinema_id \in PathUuids :
       \E if_none_match \in TagChoices("cinemas", cinema_id) :
           cinema_routes_get_cinema(cinema_id, if_none_match)
    \/ \E cinema_id \in PathUuids, update \in CinemaUpdatePayloads \cup {InvalidBody} :
       \E if_match \in TagChoices("cinemas", cinema_id) :
           cinema_routes_update_cinema(cinema_id, update, if_match)
    \/ \E cinema_id \in PathUuids, cinema \in CinemaCreatePayloads \cup {InvalidBody} :
       \E if_match \in TagChoices("cinemas", cinema_id) :
           cinema_routes_replace_cinema(cinema_id, cinema, if_match)
    \/ \E cinema_id \in PathUuids :
       \E if_match \in TagChoices("cinemas", cinema_id) :
           cinema_routes_delete_cinema(cinema_id, if_match)
    \/ cinema_routes_list_cinemas
    \/ \E showtime \in ShowtimeCreatePayloads \cup {InvalidBody} :
           showtime_routes_create_showtime(showtime)
    \/ \E showtime_id \in PathUuids :
       \E if_none_match \in TagChoices("showtimes", showtime_id) :
           showtime_routes_get_showtime(showtime_id, if_none_match)
    \/ \E showtime_id \in PathUuids, update \in ShowtimeUpdatePayloads \cup {InvalidBody} :
       \E if_match \in TagChoices("showtimes", showtime_id) :
           showtime_routes_update_showtime(showtime_id, update, if_match)
    \/ \E showtime_id \in PathUuids, showtime \in ShowtimeCreatePayloads \cup {InvalidBody} :
       \E if_match \in TagChoices("showtimes", showtime_id) :
           showtime_routes_replace_showtime(showtime_id, showtime, if_match)
    \/ \E showtime_id \in PathUuids :
       \E if_match \in TagChoices("showtimes", showtime_id) :
           showtime_routes_delete_showtime(showtime_id, if_match)
    \/ \E screen_id \in {None, Some(PyUuid(1, 0))}, movie_id \in {None, Some(1)} :
           showtime_routes_list_showtimes(screen_id, movie_id)
    \/ \E showtime_id \in PathUuids, seat_update \in SeatUpdateRequests \cup {InvalidBody} :
           showtime_routes_update_seat_count(showtime_id, seat_update)
    \/ \E showtime_id \in PathUuids : showtime_routes_get_seat_availability(showtime_id)
    \/ \E theatre \in MainTheatrePayloads \cup {InvalidBody} : main_create_theatre(theatre)
    \/ \E theatre_id \in PathUuids :
       \E if_none_match \in TagChoices("main/theatres", theatre_id) :
           main_get_theatre(theatre_id, if_none_match)
    \/ \E theatre_id \in PathUuids, update \in MainTheatreUpdates \cup {InvalidBody} :
       \E if_match \in TagChoices("main/theatres", theatre_id) :
           main_update_theatre(theatre_id, update, if_match)
    \/ \E theatre_id \in PathUuids, theatre \in MainTheatrePayloads \cup {InvalidBody} :
       \E if_match \in TagChoices("main/theatres", theatre_id) :
           main_replace_theatre(theatre_id, theatre, if_match)
    \/ \E theatre_id \in PathUuids :
       \E if_match \in TagChoices("main/theatres", theatre_id) :
           main_delete_theatre(theatre_id, if_match)
    \/ main_list_theatres
    \/ \E cinema \in CinemaCreatePayloads \cup {InvalidBody} : main_create_cinema(cinema)
    \/ \E cinema_id \in PathUuids :
       \E if_none_match \in TagChoices("main/cinemas", cinema_id) :
           main_get_cinema(cinema_id, if_none_match)
    \/ \E cinema_id \in PathUuids, update \in CinemaUpdatePayloads \cup {InvalidBody} :
       \E if_match \in TagChoices("main/cinemas", cinema_id) :
           main_update_cinema(cinema_id, update, if_match)
    \/ \E cinema_id \in PathUuids, cinema \in CinemaCreatePayloads \cup {InvalidBody} :
       \E if_match \in TagChoices("main/cinemas", cinema_id) :
           main_replace_cinema(cinema_id, cinema, if_match)
    \/ \E cinema_id \in PathUuids :
       \E if_match \in TagChoices("main/cinemas", cinema_id) :
           main_delete_cinema(cinema_id, if_match)
    \/ main_list_cinemas

Spec == Init /\ [][Next]_vars

----------------------------------------------------------------------------
(* Two PATCH /theatres/{theatre_id} requests in flight.  Each handler runs in
   its own thread with its own session: it reads the row and checks If-Match
   (lines 100-110 of theatre_routes.py), and later calls the service, which
   commits (lines 112-128).  Nothing locks the row in between. *)

Writers == {1, 2}
RacePath == PyUuid(1, 0)
RaceTag == Some(calc_etag(dict_to_theatre_read(SeedTheatres[1])))

\* The row after the commit of a session that loaded the row as loaded and set
\* the attributes changed: the UPDATE writes the columns that differ from the
\* loaded values and, by onupdate, updated_at; without a difference there is no
\* UPDATE.
race_commit_row(current, loaded, changed) ==
    IF changed = loaded THEN current
    ELSE [c \in DOMAIN current |->
              IF c = "updated_at" THEN now
              ELSE IF changed[c] # loaded[c] THEN changed[c]
              ELSE current[c]]

\* The handler up to its If-Match check.  peer records where the other request
\* was at that moment.
race_check(i) ==
    /\ focus = "race"
    /\ writers[i].pc = "start"
    /\ LET status == theatre_routes_update_status(RacePath, writers[i].if_match)
           db_item == TheatreDataService_get_theatre_by_id(path_id_int(RacePath))
       IN writers' = [writers EXCEPT
                          ![i].pc = IF status = 200 THEN "checked" ELSE "done",
                          ![i].status = IF status = 200 THEN 0 ELSE status,
                          ![i].loaded = db_item,
                          ![i].peer = writers[3 - i].pc]
    /\ UNCHANGED <<db_cinemas, db_theatres, db_screens, db_showtimes, theatres, cinemas,
                   next_uuid, now, resp, focus>>

\* The rest of the handler: service.update_theatre and the response.
race_commit(i) ==
    /\ focus = "race"
    /\ writers[i].pc = "checked"
    /\ LET loaded == writers[i].loaded[1]
           update == writers[i].update
           changed == [loaded EXCEPT
                           !.name = IF update.name # None THEN update.name[1] ELSE @,
                           !.address = IF update.address # None THEN update.address[1] ELSE @,
                           !.screen_count = IF update.screenCount # None
                                            THEN update.screenCount[1] ELSE @]
           row == race_commit_row(db_theatres[loaded.theatre_id], loaded, changed)
           result == dict_to_theatre_read(row)
       IN /\ db_theatres' = [db_theatres EXCEPT ![loaded.theatre_id] = row]
          /\ resp' = Response("theatres", "PATCH", RacePath, writers[i].if_match, 200,
                              Some(calc_etag(result)), Some(result))
          /\ writers' = [writers EXCEPT ![i].pc = "done", ![i].status = 200]
    /\ UNCHANGED <<db_cinemas, db_screens, db_showtimes, theatres, cinemas,
                   next_uuid, now, focus>>

InitRace ==
    /\ focus = "race"
    /\ db_cinemas = SeedCinemas
    /\ db_theatres = SeedTheatres
    /\ db_screens = <<>>
    /\ db_showtimes = <<>>
    /\ theatres = <<>>
    /\ cinemas = <<>>
    /\ next_uuid = 0
    /\ now = 0
    /\ resp = NoResponse
    /\ writers \in [Writers -> [pc : {"start"}, if_match : {RaceTag},
                                update : TheatreUpdatePayloads, status : {0},
                                loaded : {None}, peer : {"start"}]]

NextRace ==
    \/ Tick
    \/ \E i \in Writers : race_check(i)
    \/ \E i \in Writers : race_commit(i)

SpecRace == InitRace /\ [][NextRace]_vars

----------------------------------------------------------------------------
(* A DELETE of a theatre racing with a PATCH or with another DELETE of it.
   delete_theatre reads the row and compares the tag (lines 178-188 of
   theatre_routes.py) and later calls the service, which sets the flag and
   commits; update_theatre does the same with its fields.  Nothing locks the row
   in between. *)

\* The two requests: request 1 is a PATCH or a DELETE, request 2 a DELETE.
DeleteRaceRequests ==
    {w \in [Writers -> [op : {"PATCH", "DELETE"}, pc : {"start"},
                         if_match : {None, RaceTag}, update : TheatreUpdatePayloads,
                         status : {0}, loaded : {None}]] :
        /\ w[2].op = "DELETE"
        /\ \A i \in Writers :
               /\ w[i].op = "PATCH" => w[i].if_match # None
               /\ w[i].op = "DELETE" => w[i].update = [name |-> None, address |-> None,
                                                       screenCount |-> None]}

UnchangedButDeleteRace ==
    UNCHANGED <<db_cinemas, db_screens, db_showtimes, theatres, cinemas, next_uuid, now,
                focus>>

\* A handler up to its If-Match check.
delete_race_check(i) ==
    /\ focus = "delete-race"
    /\ writers[i].pc = "start"
    /\ UnchangedButDeleteRace
    /\ UNCHANGED <<db_theatres, resp>>
    /\ LET db_item == TheatreDataService_get_theatre_by_id(path_id_int(RacePath))
           found == db_item # None
           existing == dict_to_theatre_read(db_item[1])
           status == IF writers[i].op = "PATCH"
                     THEN theatre_routes_update_status(RacePath, writers[i].if_match)
                     ELSE delete_precondition(found, found /\ TheatreRead_valid(existing),
                                              existing, writers[i].if_match)
       IN writers' = [writers EXCEPT
                          ![i].pc = IF status = 200 THEN "checked" ELSE "done",
                          ![i].status = IF status = 200 THEN 0 ELSE status,
                          ![i].loaded = db_item]

\* The rest of update_theatre: service.update_theatre and the response.
delete_race_commit_update(i) ==
    /\ focus = "delete-race"
    /\ writers[i].pc = "checked"
    /\ writers[i].op = "PATCH"
    /\ UnchangedButDeleteRace
    /\ LET loaded == writers[i].loaded[1]
           update == writers[i].update
           changed == [loaded EXCEPT
                           !.name = IF update.name # None THEN update.name[1] ELSE @,
                           !.address = IF update.address # None THEN update.address[1] ELSE @,
                           !.screen_count = IF update.screenCount # None
                                            THEN update.screenCount[1] ELSE @]
           row == race_commit_row(db_theatres[loaded.theatre_id], loaded, changed)
           result == dict_to_theatre_read(row)
       IN /\ db_theatres' = [db_theatres EXCEPT ![loaded.theatre_id] = row]
          /\ resp' = Response("theatres", "PATCH", RacePath, writers[i].if_match, 200,
                              Some(calc_etag(result)), Some(result))
          /\ writers' = [writers EXCEPT ![i].pc = "done", ![i].status = 200]

\* The rest of delete_theatre: service.delete_theatre (soft_delete and commit)
\* and the response.
delete_race_commit_delete(i) ==
    /\ focus = "delete-race"
    /\ writers[i].pc = "checked"
    /\ writers[i].op = "DELETE"
    /\ UnchangedButDeleteRace
    /\ LET loaded == writers[i].loaded[1]
           row == race_commit_row(db_theatres[loaded.theatre_id], loaded,
                                  soft_delete(loaded))
       IN /\ db_theatres' = [db_theatres EXCEPT ![loaded.theatre_id] = row]
          /\ resp' = Response("theatres", "DELETE", RacePath, writers[i].if_match, 200,
                              None, None)
          /\ writers' = [writers EXCEPT ![i].pc = "done", ![i].status = 200]

InitDeleteRace ==
    /\ focus = "delete-race"
    /\ db_cinemas = SeedCinemas
    /\ db_theatres = SeedTheatres
    /\ db_screens = <<>>
    /\ db_showtimes = <<>>
    /\ theatres = <<>>
    /\ cinemas = <<>>
    /\ next_uuid = 0
    /\ now = 0
    /\ resp = NoResponse
    /\ writers \in DeleteRaceRequests

NextDeleteRace ==
    \/ Tick
    \/ \E i \in Writers : delete_race_check(i)
    \/ \E i \in Writers : delete_race_commit_update(i)
    \/ \E i \in Writers : delete_race_commit_delete(i)

SpecDeleteRace == InitDeleteRace /\ [][NextDeleteRace]_vars

----------------------------------------------------------------------------
(* Two seat adjustments on one showtime, running at the same time.  The handler
   update_seat_count is written as read (line 264), validate (lines 276-289),
   write (line 292), but its read, db_service.get_showtime_by_id(showtime_id_int),
   leaves out the db argument: the request ends there with TypeError, before
   anything is read, so a request has one step. *)

\* POST /showtimes/{showtime_id}/seats of request i, up to the exception.
seat_race_update_seat_count(i) ==
    /\ focus = "seat-race"
    /\ writers[i].pc = "start"
    /\ UNCHANGED <<db_cinemas, db_theatres, db_screens, db_showtimes, theatres, cinemas,
                   next_uuid, now, focus>>
    /\ resp' = Response("showtimes", "SEATS", RacePath, None, 500, None, None)
    /\ writers' = [writers EXCEPT ![i].pc = "done", ![i].status = 500]

InitSeatRace ==
    /\ focus = "seat-race"
    /\ db_cinemas = SeedCinemas
    /\ db_theatres = SeedTheatres
    /\ db_screens = SeedScreens
    /\ db_showtimes \in {SeedShowtimes(b) : b \in SeedBooked}
    /\ theatres = <<>>
    /\ cinemas = <<>>
    /\ next_uuid = 0
    /\ now = 0
    /\ resp = NoResponse
    /\ writers \in [Writers -> [pc : {"start"}, seat_update : SeatUpdateRequests,
                                status : {0}]]

NextSeatRace ==
    \/ Tick
    \/ \E i \in Writers : seat_race_update_seat_count(i)

SpecSeatRace == InitSeatRace /\ [][NextSeatRace]_vars

----------------------------------------------------------------------------
(* Two calls of ShowtimeDataService.update_seat_count on one showtime, each with
   its own session, as update_seat_count of the router is written to call it
   (line 292).  A call loads the row (get_showtime_by_id, a SELECT that takes no
   lock), adds seat_delta to the loaded attribute and commits; the UPDATE the
   commit flushes sets seats_booked to the sum computed from the loaded value. *)

UnchangedButSeatService ==
    UNCHANGED <<db_cinemas, db_theatres, db_screens, theatres, cinemas, next_uuid, now,
                focus, resp>>

\* showtime = self.get_showtime_by_id(db, showtime_id); None ends the call.
seat_service_load(i) ==
    /\ focus = "seat-service-race"
    /\ writers[i].pc = "start"
    /\ UnchangedButSeatService
    /\ UNCHANGED db_showtimes
    /\ LET showtime == ShowtimeDataService_get_showtime_by_id(path_id_int(RacePath))
       IN writers' = [writers EXCEPT
                          ![i].pc = IF showtime = None THEN "done" ELSE "loaded",
                          ![i].loaded = showtime]

\* showtime.seats_booked += seat_delta; db.commit(); db.refresh(showtime).
seat_service_commit(i) ==
    /\ focus = "seat-service-race"
    /\ writers[i].pc = "loaded"
    /\ UnchangedButSeatService
    /\ LET loaded == writers[i].loaded[1]
           changed == [loaded EXCEPT !.seats_booked = @ + writers[i].seat_delta]
           row == race_commit_row(db_showtimes[loaded.showtime_id], loaded, changed)
       IN /\ db_showtimes' = [db_showtimes EXCEPT ![loaded.showtime_id] = row]
          /\ writers' = [writers EXCEPT ![i].pc = "done", ![i].returned = Some(row)]

InitSeatServiceRace ==
    /\ focus = "seat-service-race"
    /\ db_cinemas = SeedCinemas
    /\ db_theatres = SeedTheatres
    /\ db_screens = SeedScreens
    /\ db_showtimes \in {SeedShowtimes(b) : b \in SeedBooked}
    /\ theatres = <<>>
    /\ cinemas = <<>>
    /\ next_uuid = 0
    /\ now = 0
    /\ resp = NoResponse
    /\ writers \in [Writers -> [pc : {"start"}, seat_delta : SeatDeltas,
                                initial : {db_showtimes[1].seats_booked},
                                loaded : {None}, returned : {None}]]

NextSeatServiceRace ==
    \/ Tick
    \/ \E i \in Writers : seat_service_load(i)
    \/ \E i \in Writers : seat_service_commit(i)

SpecSeatServiceRace == InitSeatServiceRace /\ [][NextSeatServiceRace]_vars

----------------------------------------------------------------------------
(* TheatreDataService called directly, as tests/test_theatre_data_service.py
   calls it.  resp.body holds what the call returned. *)

ServiceIds == 1..MaxServiceRows

UnchangedButService ==
    UNCHANGED <<db_cinemas, db_screens, db_showtimes, theatres, cinemas, next_uuid, now,
                focus, writers>>

service_create_theatre(name, screen_count) ==
    /\ focus = "service"
    /\ Len(db_theatres) < MaxServiceRows
    /\ UnchangedButService
    /\ LET theatre == TheatreDataService_create_theatre(1, name, Address, screen_count, 1)
       IN /\ db_theatres' = Append(db_theatres, theatre)
          /\ resp' = Response("service", "create_theatre", PyInt(theatre.theatre_id), None,
                              0, None, Some(theatre))

service_get_theatre_by_id(theatre_id) ==
    /\ focus = "service"
    /\ UnchangedButService
    /\ UNCHANGED db_theatres
    /\ resp' = Response("service", "get_theatre_by_id", PyInt(theatre_id), None, 0, None,
                        TheatreDataService_get_theatre_by_id(theatre_id))

service_get_all_theatres ==
    /\ focus = "service"
    /\ UnchangedButService
    /\ UNCHANGED db_theatres
    /\ resp' = Response("service", "get_all_theatres", PyInt(0), None, 0, None,
                        Some(TheatreDataService_get_all_theatres))

service_update_theatre(theatre_id, name) ==
    /\ focus = "service"
    /\ UnchangedButService
    /\ LET updated == TheatreDataService_update_theatre(theatre_id, Some(name), None, None)
       IN /\ db_theatres' = Stored(db_theatres, theatre_id, updated)
          /\ resp' = Response("service", "update_theatre", PyInt(theatre_id), None, 0, None,
                              updated)

\* delete_theatre returns True or False.
service_delete_theatre(theatre_id) ==
    /\ focus = "service"
    /\ UnchangedButService
    /\ LET deleted == TheatreDataService_delete_theatre(theatre_id)
       IN /\ db_theatres' = Stored(db_theatres, theatre_id, deleted)
          /\ resp' = Response("service", "delete_theatre", PyInt(theatre_id), None, 0, None,
                              Some(deleted # None))

InitService ==
    /\ focus = "service"
    /\ db_cinemas = SeedCinemas
    /\ db_theatres = <<>>
    /\ db_screens = <<>>
    /\ db_showtimes = <<>>
    /\ theatres = <<>>
    /\ cinemas = <<>>
    /\ next_uuid = 0
    /\ now = 0
    /\ resp = NoResponse
    /\ writers = <<>>

NextService ==
    \/ Tick
    \/ \E name \in Names, screen_count \in Counts : service_create_theatre(name, screen_count)
    \/ \E theatre_id \in ServiceIds : service_get_theatre_by_id(theatre_id)
    \/ service_get_all_theatres
    \/ \E theatre_id \in ServiceIds, name \in Names : service_update_theatre(theatre_id, name)
    \/ \E theatre_id \in ServiceIds : service_delete_theatre(theatre_id)

SpecService == InitService /\ [][NextService]_vars

----------------------------------------------------------------------------
(* ShowtimeDataService and ScreenDataService.update_screen called with a session:
   the writes and reads that the handlers of /showtimes and PATCH and PUT of
   /screens delegate to.  resp.body holds what the call returned. *)

ShowtimeIds == 1..2
ScreenIds == 1..2
Movies == {1, 2}

\* The seats_booked a caller passes, and the range the model follows the column
\* over.
BookedChoices == {0, 2, 3}
BookedRange == -2..4

\* Two screens of 1 x 2 seats.
SeedTwoScreens ==
    [i \in ScreenIds |-> [SeedScreens[1] EXCEPT !.screen_id = i]]

UnchangedButShowtimes ==
    UNCHANGED <<db_cinemas, db_theatres, theatres, cinemas, next_uuid, now, focus, writers>>

showtime_service_create_showtime(screen_id, movie_id, seats_booked) ==
    /\ focus \in {"seats", "showtime-list"}
    /\ Len(db_showtimes) < (IF focus = "seats" THEN 1 ELSE Cardinality(ShowtimeIds))
    /\ UnchangedButShowtimes
    /\ UNCHANGED db_screens
    /\ LET showtime == ShowtimeDataService_create_showtime(screen_id, movie_id, now,
                                                           seats_booked, 10, 1)
       IN /\ db_showtimes' = Append(db_showtimes, showtime)
          /\ resp' = Response(focus, "create_showtime",
                              PyInt(showtime.showtime_id), None, 0, None, Some(showtime))

showtime_service_update_showtime(showtime_id, movie_id, seats_booked) ==
    /\ focus \in {"seats", "showtime-list"}
    /\ UnchangedButShowtimes
    /\ UNCHANGED db_screens
    /\ LET updated == ShowtimeDataService_update_showtime(showtime_id, movie_id, None,
                                                          seats_booked, None)
       IN /\ db_showtimes' = Stored(db_showtimes, showtime_id, updated)
          /\ resp' = Response(focus, "update_showtime", PyInt(showtime_id),
                              None, 0, None, updated)

showtime_service_update_seat_count(showtime_id, seat_delta) ==
    /\ focus \in {"seats", "showtime-list"}
    /\ showtime_id \in DOMAIN db_showtimes
       => db_showtimes[showtime_id].seats_booked + seat_delta \in BookedRange
    /\ UnchangedButShowtimes
    /\ UNCHANGED db_screens
    /\ LET updated == ShowtimeDataService_update_seat_count(showtime_id, seat_delta)
       IN /\ db_showtimes' = Stored(db_showtimes, showtime_id, updated)
          /\ resp' = Response(focus, "update_seat_count", PyInt(showtime_id),
                              None, 0, None, updated)

showtime_service_delete_showtime(showtime_id) ==
    /\ focus \in {"seats", "showtime-list"}
    /\ UnchangedButShowtimes
    /\ UNCHANGED db_screens
    /\ LET deleted == ShowtimeDataService_delete_showtime(showtime_id)
       IN /\ db_showtimes' = Stored(db_showtimes, showtime_id, deleted)
          /\ resp' = Response(focus, "delete_showtime", PyInt(showtime_id),
                              None, 0, None, Some(deleted # None))

showtime_service_get_all_showtimes ==
    /\ focus \in {"seats", "showtime-list"}
    /\ UnchangedButShowtimes
    /\ UNCHANGED <<db_screens, db_showtimes>>
    /\ resp' = Response(focus, "get_all_showtimes", PyInt(0), None, 0, None,
                        Some(ShowtimeDataService_get_all_showtimes))

showtime_service_get_showtimes_by_screen(screen_id) ==
    /\ focus \in {"seats", "showtime-list"}
    /\ UnchangedButShowtimes
    /\ UNCHANGED <<db_screens, db_showtimes>>
    /\ resp' = Response(focus, "get_showtimes_by_screen", PyInt(screen_id),
                        None, 0, None,
                        Some(ShowtimeDataService_get_showtimes_by_screen(screen_id)))

showtime_service_get_showtimes_by_movie(movie_id) ==
    /\ focus \in {"seats", "showtime-list"}
    /\ UnchangedButShowtimes
    /\ UNCHANGED <<db_screens, db_showtimes>>
    /\ resp' = Response(focus, "get_showtimes_by_movie", PyInt(movie_id),
                        None, 0, None,
                        Some(ShowtimeDataService_get_showtimes_by_movie(movie_id)))

\* The payloads of PUT /showtimes/{showtime_id}: a ShowtimeCreate.
ShowtimePutPayloads ==
    [screen_id : ScreenIds, movie_id : Movies, start_time : {0}, price : {10, 12},
     seats_booked : {0}]

\* The update_showtime call of replace_showtime (showtime_routes.py lines 174-179),
\* given the session: movie_id, start_time and seats_booked of the payload are
\* passed, its screen_id and price are not.
showtime_service_replace_showtime(showtime_id, showtime) ==
    /\ focus = "showtime-list"
    /\ UnchangedButShowtimes
    /\ UNCHANGED db_screens
    /\ LET success == ShowtimeDataService_update_showtime(
                          showtime_id, Some(showtime.movie_id), Some(showtime.start_time),
                          Some(showtime.seats_booked), None)
       IN /\ db_showtimes' = Stored(db_showtimes, showtime_id, success)
          /\ resp' = Response(focus, "replace_showtime", PyInt(showtime_id), None, 0,
                              None, success)

\* The payloads of PATCH /showtimes/{showtime_id}: a ShowtimeUpdate with no field
\* or one field supplied.
ShowtimePatchPayloads ==
    LET empty == [screen_id |-> None, movie_id |-> None, start_time |-> None,
                  price |-> None, seats_booked |-> None]
    IN {empty}
       \cup {[empty EXCEPT !.screen_id = Some(v)] : v \in ScreenIds}
       \cup {[empty EXCEPT !.movie_id = Some(v)] : v \in Movies}
       \cup {[empty EXCEPT !.start_time = Some(v)] : v \in {0}}
       \cup {[empty EXCEPT !.price = Some(v)] : v \in {10, 12}}
       \cup {[empty EXCEPT !.seats_booked = Some(v)] : v \in {0}}

\* The update_showtime call of update_showtime (showtime_routes.py lines 132-137),
\* given the session: movie_id, start_time and seats_booked of the payload are
\* passed, its screen_id and price are not.
showtime_service_patch_showtime(showtime_id, update) ==
    /\ focus = "showtime-list"
    /\ UnchangedButShowtimes
    /\ UNCHANGED db_screens
    /\ LET success == ShowtimeDataService_update_showtime(
                          showtime_id, update.movie_id, update.start_time,
                          update.seats_booked, None)
       IN /\ db_showtimes' = Stored(db_showtimes, showtime_id, success)
          /\ resp' = Response(focus, "patch_showtime", PyInt(showtime_id), None, 0,
                              None, success)

\* ScreenDataService.update_screen, as PATCH and PUT /screens/{screen_id} call it.
showtime_service_update_screen(screen_id, num_cols) ==
    /\ focus \in {"seats", "showtime-list"}
    /\ UnchangedButShowtimes
    /\ UNCHANGED db_showtimes
    /\ LET updated == ScreenDataService_update_screen(screen_id, None, None, Some(num_cols))
       IN /\ db_screens' = Stored(db_screens, screen_id, updated)
          /\ resp' = Response(focus, "update_screen", PyInt(screen_id),
                              None, 0, None, updated)

\* Seats: one showtime on the one screen, its booked count and the screen's
\* capacity changing.
InitSeats ==
    /\ focus = "seats"
    /\ db_cinemas = SeedCinemas
    /\ db_theatres = SeedTheatres
    /\ db_screens = SeedScreens
    /\ db_showtimes = <<>>
    /\ theatres = <<>>
    /\ cinemas = <<>>
    /\ next_uuid = 0
    /\ now = 0
    /\ resp = NoResponse
    /\ writers = <<>>

NextSeats ==
    \/ Tick
    \/ \E seats_booked \in BookedChoices :
           showtime_service_create_showtime(1, 1, seats_booked)
    \/ \E seats_booked \in {None} \cup {Some(b) : b \in BookedChoices} :
           showtime_service_update_showtime(1, None, seats_booked)
    \/ \E seat_delta \in SeatDeltas : showtime_service_update_seat_count(1, seat_delta)
    \/ showtime_service_delete_showtime(1)
    \/ \E num_cols \in {1, 2} : showtime_service_update_screen(1, num_cols)

SpecSeats == InitSeats /\ [][NextSeats]_vars

\* Listing: showtimes of two screens and two movies, created, deleted and listed.
InitShowtimeList ==
    /\ focus = "showtime-list"
    /\ db_cinemas = SeedCinemas
    /\ db_theatres = SeedTheatres
    /\ db_screens = SeedTwoScreens
    /\ db_showtimes = <<>>
    /\ theatres = <<>>
    /\ cinemas = <<>>
    /\ next_uuid = 0
    /\ now = 0
    /\ resp = NoResponse
    /\ writers = <<>>

NextShowtimeList ==
    \/ Tick
    \/ \E screen_id \in ScreenIds, movie_id \in Movies :
           showtime_service_create_showtime(screen_id, movie_id, 0)
    \/ \E showtime_id \in ShowtimeIds : showtime_service_delete_showtime(showtime_id)
    \/ showtime_service_get_all_showtimes
    \/ \E screen_id \in ScreenIds : showtime_service_get_showtimes_by_screen(screen_id)
    \/ \E movie_id \in Movies : showtime_service_get_showtimes_by_movie(movie_id)
    \/ \E showtime_id \in ShowtimeIds, showtime \in ShowtimePutPayloads :
           showtime_service_replace_showtime(showtime_id, showtime)
    \/ \E showtime_id \in ShowtimeIds, update \in ShowtimePatchPayloads :
           showtime_service_patch_showtime(showtime_id, update)

SpecShowtimeList == InitShowtimeList /\ [][NextShowtimeList]_vars

----------------------------------------------------------------------------
(* Creates and deletes over the three collections that refer to each other: one
   client sending POST and DELETE to /cinemas, /theatres and /screens. *)

InitReferences ==
    /\ focus = "references"
    /\ db_cinemas = <<>>
    /\ db_theatres = <<>>
    /\ db_screens = <<>>
    /\ db_showtimes = <<>>
    /\ theatres = <<>>
    /\ cinemas = <<>>
    /\ next_uuid = 0
    /\ now = 0
    /\ resp = NoResponse
    /\ writers = <<>>

NextReferences ==
    \/ Tick
    \/ \E cinema \in CinemaCreatePayloads : cinema_routes_create_cinema(cinema)
    \/ \E theatre \in TheatreCreatePayloads : theatre_routes_create_theatre(theatre)
    \/ \E screen \in ScreenCreatePayloads : screen_routes_create_screen(screen)
    \/ \E cinema_id \in PathUuids, if_match \in {None, Some(BogusTag)} :
           cinema_routes_delete_cinema(cinema_id, if_match)
    \/ \E theatre_id \in PathUuids, if_match \in {None, Some(BogusTag)} :
           theatre_routes_delete_theatre(theatre_id, if_match)
    \/ \E screen_id \in PathInts, if_match \in {None, Some(BogusTag)} :
           screen_routes_delete_screen(screen_id, if_match)

SpecReferences == InitReferences /\ [][NextReferences]_vars

----------------------------------------------------------------------------
(* A client that updates a theatre and, answered 412, fetches the theatre again
   and sends its update again with the tag of that GET, while other clients
   update the same theatre.  Each request is one handler run. *)

\* How many updates the other clients have sent so far; they stop after the last.
OtherWrites == 0..2

\* The update of the retrying client: a PATCH, or a PUT with every field.
RetryUpdates ==
    [op : {"PATCH"}, update : TheatreUpdatePayloads]
    \cup [op : {"PUT"},
          update : [name : {Some(n) : n \in Names}, address : {Some(Address)},
                    screenCount : {Some(c) : c \in Counts}]]

UnchangedButRetry ==
    UNCHANGED <<db_cinemas, db_screens, db_showtimes, theatres, cinemas, next_uuid, now,
                focus>>

\* PATCH or PUT /theatres/{theatre_id} of the retrying client with the tag it holds.
retry_update ==
    /\ focus = "retry"
    /\ writers.pc = "update"
    /\ UnchangedButRetry
    /\ LET status == theatre_routes_update_status(RacePath, writers.if_match)
           update == writers.request.update
       IN /\ IF status # 200
             THEN /\ UNCHANGED db_theatres
                  /\ resp' = Response("theatres", writers.request.op, RacePath,
                                      writers.if_match, status, None, None)
             ELSE theatre_routes_apply_update(writers.request.op, RacePath,
                                              writers.if_match, update.name,
                                              update.address, update.screenCount)
          /\ writers' = [writers EXCEPT
                             !.pc = IF status = 412 THEN "refetch" ELSE "done",
                             !.status = status,
                             !.failed = @ \/ status = 412]

\* GET /theatres/{theatre_id} of the retrying client; it keeps the ETag.
retry_refetch ==
    /\ focus = "retry"
    /\ writers.pc = "refetch"
    /\ UnchangedButRetry
    /\ UNCHANGED db_theatres
    /\ LET theatre == TheatreDataService_get_theatre_by_id(path_id_int(RacePath))
           found == theatre # None
           item == dict_to_theatre_read(theatre[1])
           status == get_status(found, found /\ TheatreRead_valid(item), item, None)
           etag == IF status = 200 THEN Some(calc_etag(item)) ELSE None
       IN /\ resp' = Response("theatres", "GET", RacePath, None, status, etag,
                              IF status = 200 THEN Some(item) ELSE None)
          /\ writers' = [writers EXCEPT !.pc = "update", !.if_match = etag,
                                        !.stale = FALSE]

\* PATCH /theatres/{theatre_id} of another client, sent with the current tag.
retry_other_update(name) ==
    /\ focus = "retry"
    /\ writers.pc # "done"
    /\ writers.others + 1 \in OtherWrites
    /\ UnchangedButRetry
    /\ theatre_routes_apply_update("PATCH", RacePath, StoredTag("theatres", RacePath),
                                   Some(name), None, None)
    /\ writers' = [writers EXCEPT !.others = @ + 1, !.stale = TRUE]

InitRetry ==
    /\ focus = "retry"
    /\ db_cinemas = SeedCinemas
    /\ db_theatres = SeedTheatres
    /\ db_screens = <<>>
    /\ db_showtimes = <<>>
    /\ theatres = <<>>
    /\ cinemas = <<>>
    /\ next_uuid = 0
    /\ now = 0
    /\ resp = NoResponse
    /\ writers \in [pc : {"update"}, if_match : {RaceTag}, request : RetryUpdates,
                     status : {0}, failed : {FALSE}, stale : {FALSE}, others : {0}]

NextRetry ==
    \/ Tick
    \/ retry_update
    \/ retry_refetch
    \/ \E name \in Names : retry_other_update(name)

\* The retrying client does not give up: its next request is sent eventually.
SpecRetry ==
    InitRetry /\ [][NextRetry]_vars /\ WF_vars(retry_update) /\ WF_vars(retry_refetch)

----------------------------------------------------------------------------
(* calc_etag on its own: the tag of an object is computed, and computed again
   after time has passed, rows were stored and the tag of another object was
   computed. *)

\* Objects with a name, a timestamp and an address that is absent, None or set.
EtagObjects ==
    LET base == [name : {PyStr(n) : n \in Names}, updated_at : {PyDt(t) : t \in 0..MaxTime}]
    IN base \cup {b @@ [address |-> a] : b \in base, a \in {PyNone, PyStr(Address)}}

UnchangedButEtag ==
    UNCHANGED <<db_cinemas, db_screens, db_showtimes, theatres, cinemas, next_uuid, now,
                focus>>

\* calc_etag(obj): the first call, or a later one.
etag_calc_obj ==
    /\ focus = "etag"
    /\ UnchangedButEtag
    /\ UNCHANGED db_theatres
    /\ writers' = [writers EXCEPT
                       !.first = IF @ = None THEN Some(calc_etag(writers.obj)) ELSE @,
                       !.again = IF writers.first = None THEN @
                                 ELSE Some(calc_etag(writers.obj))]
    /\ resp' = Response("etag", "calc_etag", PyInt(1), None, 0,
                        Some(calc_etag(writers.obj)), Some(writers.obj))

\* calc_etag(other)
etag_calc_other ==
    /\ focus = "etag"
    /\ UnchangedButEtag
    /\ UNCHANGED db_theatres
    /\ writers' = [writers EXCEPT !.second = Some(calc_etag(writers.other))]
    /\ resp' = Response("etag", "calc_etag", PyInt(2), None, 0,
                        Some(calc_etag(writers.other)), Some(writers.other))

\* A row is stored between two calls.
etag_store_row(name) ==
    /\ focus = "etag"
    /\ Len(db_theatres) < MaxRows
    /\ UnchangedButEtag
    /\ UNCHANGED <<writers, resp>>
    /\ db_theatres' = Append(db_theatres,
                             TheatreDataService_create_theatre(1, name, Address, 1, 1))

InitEtag ==
    /\ focus = "etag"
    /\ db_cinemas = SeedCinemas
    /\ db_theatres = <<>>
    /\ db_screens = <<>>
    /\ db_showtimes = <<>>
    /\ theatres = <<>>
    /\ cinemas = <<>>
    /\ next_uuid = 0
    /\ now = 0
    /\ resp = NoResponse
    /\ writers \in [obj : EtagObjects, other : EtagObjects, first : {None},
                     again : {None}, second : {None}]

NextEtag ==
    \/ Tick
    \/ etag_calc_obj
    \/ etag_calc_other
    \/ \E name \in Names : etag_store_row(name)

SpecEtag == InitEtag /\ [][NextEtag]_vars

----------------------------------------------------------------------------
(* utils/converters.py called directly, as tests/test_converters.py calls it *)

\* The values a test hands to the id conversion: ints, a numeric and a
\* non-numeric string, None and a UUID.
DbIdValues ==
    {PyInt(i) : i \in 0..3} \cup {PyStr("10"), PyStr("abc"), PyNone, int_to_uuid(1)}

\* The UUIDs uuid4() may draw.
RandomUuids == {PyUuid(i, 0) : i \in 1..2}

\* The outcomes of db_to_uuid(value): int_to_uuid of an int, a UUID itself,
\* UUID(str(value)) of another true value, which raises ValueError unless the text
\* writes 32 hex digits, and uuid4() of None.
db_to_uuid_outcomes(value) ==
    IF IsInt(value) THEN {[raised |-> FALSE, value |-> int_to_uuid(value[2])]}
    ELSE IF IsUuid(value) THEN {[raised |-> FALSE, value |-> value]}
    ELSE IF IsStr(value) THEN {[raised |-> TRUE, value |-> PyStr("ValueError")]}
    ELSE {[raised |-> FALSE, value |-> u] : u \in RandomUuids}

\* The rows a test builds.
ConverterTheatreRows ==
    [theatre_id : 1..2, cinema_id : 1..2, name : {"A"}, address : {Address},
     screen_count : {5}, created_at : {0}, updated_at : {0}]

ConverterShowtimeRows ==
    [showtime_id : {1}, screen_id : {2}, movie_id : {3}, price : {10, 250},
     start_time : {0}, seats_booked : {0, 30}, created_at : {0}, updated_at : {0}]

\* The cinema row with the ids and timestamps of a theatre row.
ConverterCinemaRow(row) ==
    [cinema_id |-> row.cinema_id, name |-> row.name, created_at |-> row.created_at,
     updated_at |-> row.updated_at]

\* The attributes test_dict_to_screen_read gives its object, and the screen_number
\* attribute: None as in the test, or a string as in a row.
ConverterScreenRows ==
    [screen_id : {1}, theatre_id : {2}, num_rows : {1, 10}, num_cols : {20},
     created_at : {0}, updated_at : {0}]

ConverterScreenNumbers == {PyNone, PyStr("1")}

UnchangedButConverters ==
    UNCHANGED <<db_cinemas, db_theatres, db_screens, db_showtimes, theatres, cinemas,
                next_uuid, now, focus>>

\* db_to_uuid(value), the only id conversion of the module (no db_to_int is
\* defined in it).
converters_db_to_uuid ==
    /\ focus = "converters"
    /\ UnchangedButConverters
    /\ \E out \in db_to_uuid_outcomes(writers.value) :
           /\ writers' = [writers EXCEPT !.id = Some(out)]
           /\ resp' = Response("converters", "db_to_uuid", PyInt(0), None, 0, None, Some(out))

\* dict_to_theatre_read(row)
converters_dict_to_theatre_read ==
    /\ focus = "converters"
    /\ UnchangedButConverters
    /\ writers' = [writers EXCEPT !.theatre = Some(dict_to_theatre_read(writers.row))]
    /\ resp' = Response("converters", "dict_to_theatre_read", PyInt(0), None, 0, None,
                        Some(dict_to_theatre_read(writers.row)))

\* dict_to_cinema_read(row)
converters_dict_to_cinema_read ==
    /\ focus = "converters"
    /\ UnchangedButConverters
    /\ LET out == dict_to_cinema_read(ConverterCinemaRow(writers.row))
       IN /\ writers' = [writers EXCEPT !.cinema = Some(out)]
          /\ resp' = Response("converters", "dict_to_cinema_read", PyInt(0), None, 0, None,
                              Some(out))

\* dict_to_showtime_read(row)
converters_dict_to_showtime_read ==
    /\ focus = "converters"
    /\ UnchangedButConverters
    /\ LET out == dict_to_showtime_read(writers.showtime_row)
       IN /\ writers' = [writers EXCEPT !.showtime = Some(out)]
          /\ resp' = Response("converters", "dict_to_showtime_read", PyInt(0), None, 0,
                              Some(calc_etag(out)), Some(out))

\* dict_to_screen_read(db_item)
converters_dict_to_screen_read ==
    /\ focus = "converters"
    /\ UnchangedButConverters
    /\ LET out == dict_to_screen_read_passing(writers.screen_row, writers.screen_number)
       IN /\ writers' = [writers EXCEPT !.screen = Some(out)]
          /\ resp' = Response("converters", "dict_to_screen_read", PyInt(0), None, 0,
                              None, Some(out))

InitConverters ==
    /\ focus = "converters"
    /\ db_cinemas = <<>>
    /\ db_theatres = <<>>
    /\ db_screens = <<>>
    /\ db_showtimes = <<>>
    /\ theatres = <<>>
    /\ cinemas = <<>>
    /\ next_uuid = 0
    /\ now = 0
    /\ resp = NoResponse
    /\ writers \in [value : DbIdValues, row : ConverterTheatreRows,
                     showtime_row : ConverterShowtimeRows, id : {None}, theatre : {None},
                     cinema : {None}, showtime : {None},
                     screen_row : ConverterScreenRows,
                     screen_number : ConverterScreenNumbers, screen : {None}]

NextConverters ==
    \/ converters_db_to_uuid
    \/ converters_dict_to_theatre_read
    \/ converters_dict_to_cinema_read
    \/ converters_dict_to_showtime_read
    \/ converters_dict_to_screen_read

SpecConverters == InitConverters /\ [][NextConverters]_vars

----------------------------------------------------------------------------
(* Properties *)

\* The paths of the requests.
AllPaths == PathUuids \cup {PyInt(i) : i \in PathInts}

\* The step is a request, answered in resp', on a PATCH or PUT handler.
IsUpdateRequest ==
    /\ resp'.seq # resp.seq
    /\ resp'.op \in {"PATCH", "PUT"}

\* The request answered in resp' addresses a stored, not deleted row.
AddressesStoredRow == StoredRep(resp'.coll, resp'.path) # None

\* C1: once a PATCH of a screen with If-Match T0 has succeeded, a PATCH of that
\* screen replaying the same T0, whatever its (valid) payload, receives 412.
C1_ReplayedTagRejected ==
    [][(/\ resp.coll = "screens" /\ resp.op = "PATCH" /\ resp.status = 200
        /\ resp'.seq # resp.seq
        /\ resp'.coll = "screens" /\ resp'.op = "PATCH"
        /\ resp'.path = resp.path /\ resp'.tag = resp.tag
        /\ resp'.status # 422)
       => resp'.status = 412]_vars

\* C2: two PATCH requests on one theatre carry the same tag, and one of them
\* checked its tag while the other had checked and not yet committed; when both
\* are answered, exactly one is answered 200 and the other 412.
C2_OneWriterWins ==
    ((\A i \in Writers : writers[i].pc = "done")
     /\ (\E i \in Writers : writers[i].peer = "checked"))
    => \E i \in Writers : writers[i].status = 200 /\ writers[3 - i].status = 412

\* C3: a PATCH or PUT with a valid body whose If-Match is not the tag of the
\* stored row it addresses is answered 412 and no stored row changes.
C3_StaleTagRejected ==
    [][(/\ IsUpdateRequest
        /\ resp'.status # 422
        /\ AddressesStoredRow
        /\ resp'.tag # None
        /\ resp'.tag # StoredTag(resp'.coll, resp'.path))
       => (resp'.status = 412 /\ UNCHANGED Tables)]_vars

\* C4: a PATCH or PUT without If-Match on a stored row is answered 428, whether
\* or not its body is valid, and no stored row changes.
C4_MissingTagRejected ==
    [][(/\ IsUpdateRequest
        /\ AddressesStoredRow
        /\ resp'.tag = None)
       => (resp'.status = 428 /\ UNCHANGED Tables)]_vars

\* C5: in every collection, a PATCH or PUT with a valid body whose If-Match is
\* the tag of the stored row it addresses is answered 200 with the representation
\* of the row as stored after the update and that representation's tag as ETag.
C5_MatchingTagApplied ==
    [][(/\ IsUpdateRequest
        /\ resp'.status # 422
        /\ AddressesStoredRow
        /\ resp'.tag = StoredTag(resp'.coll, resp'.path))
       => (/\ resp'.status = 200
           /\ \A c \in AllCollections, p \in AllPaths :
                  (c = resp'.coll /\ p = resp'.path)
                  => (resp'.body = StoredRep(c, p)' /\ resp'.etag = StoredTag(c, p)'))]_vars

\* C6: a GET of a stored, not deleted row is answered 304 without a body when
\* If-None-Match is the row's tag T and 200 with the representation otherwise,
\* both with ETag T; a GET of an absent or soft-deleted id is answered 404.
C6_ConditionalGet ==
    [][(resp'.seq # resp.seq /\ resp'.op = "GET")
       => IF ~AddressesStoredRow
          THEN resp'.status = 404
          ELSE /\ resp'.etag = StoredTag(resp'.coll, resp'.path)
               /\ IF resp'.tag = StoredTag(resp'.coll, resp'.path)
                  THEN resp'.status = 304 /\ resp'.body = None
                  ELSE resp'.status = 200
                       /\ resp'.body = StoredRep(resp'.coll, resp'.path)]_vars

\* C7: a GET that repeats the GET just answered, with If-None-Match set to the
\* ETag that answer carried, is answered 304.
C7_RepeatedGetNotModified ==
    [][(/\ resp.op = "GET" /\ resp.etag # None
        /\ resp'.seq # resp.seq
        /\ resp'.op = "GET" /\ resp'.coll = resp.coll /\ resp'.path = resp.path
        /\ resp'.tag = resp.etag)
       => resp'.status = 304]_vars

\* A GET was answered 304 to an If-None-Match that is the tag of the stored row.
C7_Witness ==
    /\ resp.op = "GET" /\ resp.status = 304
    /\ resp.coll \in {"theatres", "screens", "main/cinemas"}
    /\ resp.tag = resp.etag
    /\ resp.tag = StoredTag(resp.coll, resp.path)

\* The ids of the rows a collection stores, soft-deleted ones included.
StoredIds(coll) ==
    CASE coll = "theatres" -> DOMAIN db_theatres
      [] coll = "screens" -> DOMAIN db_screens
      [] coll = "cinemas" -> DOMAIN db_cinemas
      [] coll = "showtimes" -> DOMAIN db_showtimes
      [] coll = "main/theatres" -> DOMAIN theatres
      [] coll = "main/cinemas" -> DOMAIN cinemas
      [] OTHER -> {}

\* C8: a DELETE of a stored row with an If-Match that is not the row's tag is
\* answered 412 and deletes nothing; without If-Match, or with the row's tag, it
\* soft-deletes the row: the row stays stored and is no longer visible.
C8_DeletePrecondition ==
    [][(resp'.seq # resp.seq /\ resp'.op = "DELETE" /\ AddressesStoredRow)
       => IF resp'.tag # None /\ resp'.tag # StoredTag(resp'.coll, resp'.path)
          THEN resp'.status = 412 /\ UNCHANGED Tables
          ELSE \A c \in AllCollections, p \in AllPaths :
                   (c = resp'.coll /\ p = resp'.path)
                   => (StoredIds(c)' = StoredIds(c) /\ StoredRep(c, p)' = None)]_vars

\* C9: no step removes a row from a store: every row stored before the step is
\* stored after it.
C9_RowsNeverRemoved ==
    [][\A coll \in AllCollections : StoredIds(coll) \subseteq StoredIds(coll)']_vars

\* The rows of theatres that are not soft-deleted.
LiveTheatres == {db_theatres[i] : i \in {j \in DOMAIN db_theatres : ~db_theatres[j].is_deleted}}

\* What the last get_theatre_by_id or get_all_theatres call returned: only rows
\* that are not soft-deleted, and all of them it was asked for.
C10_CallsReturnLiveRows ==
    /\ resp.op = "get_theatre_by_id"
       => IF \E t \in LiveTheatres : PyInt(t.theatre_id) = resp.path
          THEN resp.body # None /\ resp.body[1] \in LiveTheatres
               /\ PyInt(resp.body[1].theatre_id) = resp.path
          ELSE resp.body = None
    /\ resp.op = "get_all_theatres"
       => {resp.body[1][k] : k \in DOMAIN resp.body[1]} = LiveTheatres

\* A soft-deleted row stays soft-deleted; a delete_theatre that returns True has
\* soft-deleted its row; a create_theatre, whatever rows were deleted before and
\* whatever their values, stores a row with a new id that get_theatre_by_id and
\* get_all_theatres return.
C10_DeleteThenCreate ==
    /\ \A id \in DOMAIN db_theatres :
           db_theatres[id].is_deleted
           => (id \in DOMAIN db_theatres' /\ db_theatres'[id].is_deleted)
    /\ (resp'.seq # resp.seq /\ resp'.op = "delete_theatre" /\ resp'.body = Some(TRUE))
       => \A id \in ServiceIds :
              PyInt(id) = resp'.path
              => (db_theatres'[id].is_deleted
                  /\ TheatreDataService_get_theatre_by_id(id)' = None)
    /\ (resp'.seq # resp.seq /\ resp'.op = "create_theatre")
       => \A id \in ServiceIds :
              PyInt(id) = resp'.path
              => (/\ id \notin DOMAIN db_theatres
                  /\ TheatreDataService_get_theatre_by_id(id)' = resp'.body
                  /\ \E k \in DOMAIN TheatreDataService_get_all_theatres' :
                         TheatreDataService_get_all_theatres'[k] = resp'.body[1])

\* C10: after a successful delete of a theatre no later get_theatre_by_id or
\* get_all_theatres call returns it, and a later create_theatre, also one with the
\* same field values, yields a distinct theatre that both calls return.
C10_SoftDeleteVisibility ==
    [] C10_CallsReturnLiveRows /\ [][C10_DeleteThenCreate]_vars

\* A theatre was soft-deleted, later a theatre with the same field values was
\* created, and get_theatre_by_id has just returned the new one.
C10_Witness ==
    /\ resp.op = "get_theatre_by_id"
    /\ resp.body # None
    /\ \E i \in DOMAIN db_theatres :
           /\ db_theatres[i].is_deleted
           /\ db_theatres[i].theatre_id # resp.body[1].theatre_id
           /\ db_theatres[i].name = resp.body[1].name
           /\ db_theatres[i].address = resp.body[1].address
           /\ db_theatres[i].screen_count = resp.body[1].screen_count
           /\ db_theatres[i].deleted_at[1] < resp.body[1].created_at

----------------------------------------------------------------------------
(* Seats *)

\* The capacity of the screen of showtime row t: num_rows x num_cols.
total_seats(t) == db_screens[t.screen_id].num_rows * db_screens[t.screen_id].num_cols

\* C11: a seat adjustment by d on a stored showtime with booked count b on a screen
\* of capacity c is answered 200 and sets the booked count to b + d when
\* 0 <= b + d <= c, and is answered 400 and changes nothing otherwise.
C11_SeatAdjustment ==
    [][\A showtime_id \in PathUuids, d \in SeatDeltas :
           LET id == path_id_int(showtime_id) IN
           (/\ showtime_routes_update_seat_count(showtime_id, [count |-> d])
            /\ ShowtimeDataService_get_showtime_by_id(id) # None)
           => LET b == db_showtimes[id].seats_booked
                  c == total_seats(db_showtimes[id])
              IN IF 0 <= b + d /\ b + d <= c
                 THEN resp'.status = 200 /\ db_showtimes'[id].seats_booked = b + d
                 ELSE resp'.status = 400 /\ db_showtimes' = db_showtimes]_vars

\* The showtimes that are not soft-deleted.
LiveShowtimes ==
    {db_showtimes[i] : i \in {j \in DOMAIN db_showtimes : ~db_showtimes[j].is_deleted}}

\* C12: every showtime that is not deleted has a booked count from 0 to the
\* capacity of its screen.
C12_BookedWithinCapacity ==
    \A t \in LiveShowtimes : 0 <= t.seats_booked /\ t.seats_booked <= total_seats(t)

----------------------------------------------------------------------------
(* References *)

\* C13: each theatre that is not deleted refers to a cinema that is stored and not
\* deleted, and each screen that is not deleted to such a theatre.
C13_ReferencesLive ==
    /\ \A i \in DOMAIN db_theatres :
           ~db_theatres[i].is_deleted
           => CinemaDataService_get_cinema_by_id(db_theatres[i].cinema_id) # None
    /\ \A i \in DOMAIN db_screens :
           ~db_screens[i].is_deleted
           => TheatreDataService_get_theatre_by_id(db_screens[i].theatre_id) # None

----------------------------------------------------------------------------
(* The updated timestamp *)

\* C14: after a PATCH or PUT answered 200 the updated_at of the row it addressed
\* is the time of the request, also when the payload changed no field value.
C14_UpdateRefreshesTimestamp ==
    [][(IsUpdateRequest /\ resp'.status = 200)
       => \A c \in AllCollections, p \in AllPaths :
              (c = resp'.coll /\ p = resp'.path)
              => (/\ StoredRep(c, p)' # None
                  /\ StoredRep(c, p)'[1].updated_at = PyDt(now))]_vars

----------------------------------------------------------------------------
(* Retry after 412 *)

\* The retrying client, answered 412 before, has fetched the theatre again and no
\* update of the theatre was committed since: its update, sent with the tag of
\* that GET, is answered 200.
C15_RetrySucceeds ==
    (/\ writers.pc = "update" /\ writers'.pc # "update"
     /\ writers.failed /\ ~writers.stale)
    => (writers'.status = 200 /\ resp'.status = 200 /\ writers'.pc = "done")

\* C15: an update sent again after a 412 with the tag of a fresh GET succeeds
\* when no other update was committed in between, and the retrying client's
\* update is answered 200 eventually, the other clients sending finitely many
\* updates.
C15_RetryAfterPreconditionFailed ==
    [][C15_RetrySucceeds]_vars /\ <>(writers.pc = "done" /\ writers.status = 200)

\* The retrying client was answered 412, fetched the theatre again and has had
\* its update answered 200.
C15_Witness ==
    /\ focus = "retry"
    /\ writers.failed
    /\ writers.pc = "done"
    /\ writers.status = 200
    /\ resp.op \in {"PATCH", "PUT"}
    /\ resp.status = 200

----------------------------------------------------------------------------
(* ETag *)

\* The fields of an object that are not None, with their values.
NonNullFields(obj) == {<<k, obj[k]>> : k \in {f \in DOMAIN obj : obj[f] # PyNone}}

DifferInOneField(a, b) ==
    /\ DOMAIN a = DOMAIN b
    /\ \E k \in DOMAIN a :
           /\ a[k] # b[k] /\ a[k] # PyNone /\ b[k] # PyNone
           /\ \A j \in DOMAIN a \ {k} : a[j] = b[j]

\* Object b is object a without a field that is None in a.
WithoutNullField(a, b) ==
    \E k \in DOMAIN a :
        /\ a[k] = PyNone
        /\ DOMAIN b = DOMAIN a \ {k}
        /\ \A j \in DOMAIN b : a[j] = b[j]

\* C17: two objects that differ in the value of one non-null field, a timestamp
\* included, have different tags; an object with a field that is None and the
\* object without that field have the same tag.
C17_EtagTellsFieldsApart ==
    (writers.first # None /\ writers.second # None)
    => /\ DifferInOneField(writers.obj, writers.other) => writers.first # writers.second
       /\ WithoutNullField(writers.obj, writers.other) => writers.first = writers.second

\* The tags of two objects that differ in their timestamp only have been
\* computed.
C17_Witness ==
    /\ focus = "etag"
    /\ writers.first # None
    /\ writers.second # None
    /\ DifferInOneField(writers.obj, writers.other)
    /\ writers.obj.updated_at # writers.other.updated_at

----------------------------------------------------------------------------
(* PUT *)

\* C18: after a replacement of a showtime that succeeded, the screen_id, movie_id,
\* start_time, price and seats_booked of the stored showtime are those of the
\* payload.
C18_PutReplacesEveryField ==
    [][\A showtime_id \in ShowtimeIds, showtime \in ShowtimePutPayloads :
           (/\ showtime_service_replace_showtime(showtime_id, showtime)
            /\ resp'.body # None)
           => LET stored == db_showtimes'[showtime_id]
              IN /\ stored.screen_id = showtime.screen_id
                 /\ stored.movie_id = showtime.movie_id
                 /\ stored.start_time = showtime.start_time
                 /\ stored.price = showtime.price
                 /\ stored.seats_booked = showtime.seats_booked]_vars

----------------------------------------------------------------------------
(* Lists *)

\* The representations of the rows of a collection that are not soft-deleted.
LiveRepresentations(coll) ==
    CASE coll = "theatres" ->
             {dict_to_theatre_read(db_theatres[i]) :
                  i \in {j \in DOMAIN db_theatres : ~db_theatres[j].is_deleted}}
      [] coll = "screens" ->
             {dict_to_screen_read(db_screens[i]) :
                  i \in {j \in DOMAIN db_screens : ~db_screens[j].is_deleted}}
      [] coll = "cinemas" ->
             {dict_to_cinema_read(db_cinemas[i]) :
                  i \in {j \in DOMAIN db_cinemas : ~db_cinemas[j].is_deleted}}
      [] coll = "showtimes" ->
             {dict_to_showtime_read(db_showtimes[i]) :
                  i \in {j \in DOMAIN db_showtimes : ~db_showtimes[j].is_deleted}}
      [] coll = "main/cinemas" -> {cinemas[k] : k \in DOMAIN cinemas}
      [] coll = "main/theatres" -> {theatres[k] : k \in DOMAIN theatres}

\* The response in resp' lists exactly the representations in reps, each once.
ListsExactly(reps) ==
    /\ resp'.status = 200
    /\ resp'.body # None
    /\ {resp'.body[1][k] : k \in DOMAIN resp'.body[1]} = reps
    /\ Len(resp'.body[1]) = Cardinality(reps)

\* C19: a list request is answered with exactly the rows that are not
\* soft-deleted and satisfy every filter it gives.  The requests of the model give
\* no filter, or filters (screen 1, movie 1) that every stored showtime satisfies.
C19_ListReturnsMatchingRows ==
    [][(resp'.seq # resp.seq /\ resp'.op = "LIST")
       => \A c \in AllCollections :
              c = resp'.coll => ListsExactly(LiveRepresentations(c)')]_vars

----------------------------------------------------------------------------
(* A created resource and the lists after it *)

\* The identifier in a representation of collection coll.
RepId(coll, rep) ==
    CASE coll \in {"theatres", "main/theatres"} -> rep.theatre_id
      [] coll = "screens" -> rep.screen_id
      [] coll \in {"cinemas", "main/cinemas"} -> rep.cinema_id
      [] coll = "showtimes" -> rep.showtime_id

\* The identifiers of the resources of coll that are stored and not deleted.
LiveIds(coll) == {RepId(coll, r) : r \in LiveRepresentations(coll)}

\* The collections one of whose POST requests is answered 201.
CreatingCollections == {"theatres", "screens", "main/cinemas"}

\* A POST answered 201 stores exactly one new resource, the one it returns.
C20_PostCreatesOne(c) ==
    (resp'.op = "POST" /\ resp'.status = 201)
    => /\ c \in CreatingCollections
       /\ resp'.body # None
       /\ resp'.body[1] \in LiveRepresentations(c)'
       /\ RepId(c, resp'.body[1]) \notin LiveIds(c)
       /\ LiveIds(c)' = LiveIds(c) \cup {RepId(c, resp'.body[1])}
       /\ Cardinality(LiveIds(c)') = Cardinality(LiveIds(c)) + 1

\* In a collection that answers 201, a resource is stored by such a POST only and
\* leaves by a DELETE answered 200 on it only, and a list without filters returns
\* every stored resource once.
C20_ListedUntilDeleted(c) ==
    c \in CreatingCollections
    => /\ LiveIds(c)' \ LiveIds(c) # {} => (resp'.op = "POST" /\ resp'.status = 201)
       /\ LiveIds(c) \ LiveIds(c)' # {}
          => /\ resp'.op = "DELETE"
             /\ resp'.status = 200
             /\ \A p \in AllPaths :
                    p = resp'.path
                    => /\ StoredRep(c, p) # None
                       /\ LiveIds(c) \ LiveIds(c)' = {RepId(c, StoredRep(c, p)[1])}
       /\ resp'.op = "LIST" => ListsExactly(LiveRepresentations(c)')

----------------------------------------------------------------------------
(* The tag a POST returns *)

\* The request answered in resp' follows a POST answered 201 at once and
\* addresses the created resource by the identifier in the POST's body.
AddressesCreated ==
    /\ resp.op = "POST"
    /\ resp.status = 201
    /\ resp.body # None
    /\ resp'.seq # resp.seq
    /\ resp'.coll = resp.coll
    /\ resp'.path = RepId(resp.coll, resp.body[1])

\* C21: the ETag of a POST is the tag of the created resource: the GET that
\* follows at once on the identifier the POST returned is answered with the same
\* tag, and the PATCH that follows at once with that tag as If-Match and a body
\* that validates is accepted.
C21_PostTagIsResourceTag ==
    [][AddressesCreated
       => /\ resp'.op = "GET"
             => resp'.status \in {200, 304} /\ resp'.etag = resp.etag
          /\ (resp'.op = "PATCH" /\ resp'.tag = resp.etag /\ resp'.status # 422)
             => resp'.status = 200]_vars

----------------------------------------------------------------------------
(* Seat availability *)

\* C22: the availability of a stored showtime is answered 200 with total_seats =
\* num_rows x num_cols of its screen, seats_booked as stored and seats_available =
\* total_seats - seats_booked.
C22_SeatAvailability ==
    [][\A showtime_id \in PathUuids :
           LET id == path_id_int(showtime_id) IN
           (/\ showtime_routes_get_seat_availability(showtime_id)
            /\ ShowtimeDataService_get_showtime_by_id(id) # None)
           => /\ resp'.status = 200
              /\ resp'.body # None
              /\ resp'.body[1].total_seats = total_seats(db_showtimes[id])
              /\ resp'.body[1].seats_booked = db_showtimes[id].seats_booked
              /\ resp'.body[1].seats_available
                     = total_seats(db_showtimes[id]) - db_showtimes[id].seats_booked
              /\ resp'.body[1].seats_booked + resp'.body[1].seats_available
                     = resp'.body[1].total_seats]_vars

----------------------------------------------------------------------------
(* The converters *)

\* The integer a database identifier stands for: the int itself, the int a
\* numeric string writes, 0 for None and for any other value.
IdAsInteger(value) ==
    IF IsInt(value) THEN value
    ELSE IF value = PyStr("10") THEN PyInt(10)
    ELSE PyInt(0)

\* C23: the id conversion of the converters returns a database identifier as the
\* same integer (an int unchanged, a numeric string as its int, None and any other
\* value as 0), and dict_to_theatre_read and dict_to_cinema_read give theatre_id
\* and cinema_id equal to the integer ids of the row.
C23_IdsStayIntegers ==
    /\ writers.id # None
       => ~writers.id[1].raised /\ writers.id[1].value = IdAsInteger(writers.value)
    /\ writers.theatre # None
       => /\ writers.theatre[1].theatre_id = PyInt(writers.row.theatre_id)
          /\ writers.theatre[1].cinema_id = PyInt(writers.row.cinema_id)
    /\ writers.cinema # None
       => writers.cinema[1].cinema_id = PyInt(writers.row.cinema_id)

\* C24: dict_to_showtime_read carries the price and the booked count of the row
\* unchanged, and the tag of the representation tells two prices apart.
C24_ShowtimeReadCarriesPrice ==
    writers.showtime # None
    => /\ "price" \in DOMAIN writers.showtime[1]
       /\ writers.showtime[1].price = PyInt(writers.showtime_row.price)
       /\ writers.showtime[1].seats_booked = PyInt(writers.showtime_row.seats_booked)
       /\ \A other \in ConverterShowtimeRows :
              other.price # writers.showtime_row.price
              => calc_etag(dict_to_showtime_read(other)) # calc_etag(writers.showtime[1])

----------------------------------------------------------------------------
(* The tag as the version *)

\* The step is a PATCH, PUT or DELETE that carries If-Match and is accepted.
IsAcceptedWithIfMatch ==
    /\ resp'.seq # resp.seq
    /\ resp'.op \in {"PATCH", "PUT", "DELETE"}
    /\ resp'.tag # None
    /\ resp'.status = 200

\* C25: when a PATCH, PUT or DELETE carrying If-Match T is accepted, T is the tag
\* of the representation stored at that moment; a representation with another
\* updated_at does not have tag T, and the representation the previous response
\* issued T for equals the stored one in every non-null field.
C25_TagIsVersion ==
    [][IsAcceptedWithIfMatch
       => \A stored \in {StoredRep(resp'.coll, resp'.path)} :
           /\ stored # None
           /\ resp'.tag = Some(calc_etag(stored[1]))
           /\ \A t \in 0..MaxTime :
                  calc_etag([stored[1] EXCEPT !.updated_at = PyDt(t)]) = resp'.tag[1]
                  => stored[1].updated_at = PyDt(t)
           /\ (resp.etag = resp'.tag /\ resp.body # None)
              => NonNullFields(resp.body[1]) = NonNullFields(stored[1])]_vars

\* A PATCH, PUT or DELETE was accepted with the tag of an earlier response, after
\* time had passed.
C25_Witness ==
    /\ resp.op \in {"PATCH", "PUT", "DELETE"}
    /\ resp.status = 200
    /\ resp.tag # None
    /\ resp.tag # Some(BogusTag)
    /\ now > 0

----------------------------------------------------------------------------
(* One protocol in the four collections *)

\* The collections of the four routers.
RouterCollections == {"theatres", "screens", "cinemas", "showtimes"}

\* C26: in each of the four collections the tag a GET compares is the request's
\* If-None-Match header and the tag a PATCH compares is the request's If-Match
\* header: on a stored resource, a PATCH with a body that validates and the current
\* tag in If-Match is answered 200, and a GET with the current tag in
\* If-None-Match is answered 304; so for showtimes.
C26_SameProtocol ==
    [][\A c \in RouterCollections, p \in AllPaths :
           (/\ resp'.seq # resp.seq
            /\ c = resp'.coll
            /\ p = resp'.path
            /\ StoredRep(c, p) # None
            /\ resp'.tag = StoredTag(c, p))
           => /\ (resp'.op = "PATCH" /\ resp'.status # 422) => resp'.status = 200
              /\ resp'.op = "GET" => resp'.status = 304]_vars

----------------------------------------------------------------------------
(* Not found before the precondition *)

\* C27: a PATCH or PUT with a body that validates, or a DELETE, on an id that is
\* absent or soft-deleted is answered 404 and changes nothing, whatever If-Match
\* it carries; so a second DELETE of a resource is answered 404.
C27_NotFoundFirst ==
    [][\A c \in AllCollections, p \in AllPaths :
           (/\ resp'.seq # resp.seq
            /\ resp'.op \in {"PATCH", "PUT", "DELETE"}
            /\ resp'.status # 422
            /\ c = resp'.coll
            /\ p = resp'.path
            /\ StoredRep(c, p) = None)
           => resp'.status = 404 /\ Tables' = Tables]_vars

----------------------------------------------------------------------------
(* A DELETE and the requests that race with it *)

\* C28: no step changes a field of a theatre row that is soft-deleted, also the
\* commit of a PATCH or of a DELETE that read the row before the DELETE committed.
C28_DeletedRowFrozen ==
    [][\A id \in DOMAIN db_theatres :
           db_theatres[id].is_deleted => db_theatres'[id] = db_theatres[id]]_vars

\* C29: when a DELETE carrying If-Match T commits its soft delete, the content of
\* the row at that moment has tag T, also when a PATCH of the row committed after
\* the DELETE compared the tag.
C29_DeleteChecksAtCommit ==
    [][\A i \in Writers :
           (/\ delete_race_commit_delete(i)
            /\ writers[i].if_match # None
            /\ db_theatres' # db_theatres)
           => writers[i].if_match
                  = Some(calc_etag(dict_to_theatre_read(
                                       db_theatres[path_id_int(RacePath)])))]_vars

----------------------------------------------------------------------------
(* Two seat adjustments at the same time *)

C31_NoDeltaLost ==
    (\A i \in Writers : writers[i].pc = "done" /\ writers[i].returned # None)
    => db_showtimes[1].seats_booked
           = writers[1].initial + writers[1].seat_delta + writers[2].seat_delta

----------------------------------------------------------------------------
(* Failures and the store *)

\* C32: a POST, PATCH, PUT or DELETE that is answered 500 has committed nothing:
\* every table is as it was before the request.
C32_ServerErrorCommitsNothing ==
    [][(/\ resp'.seq # resp.seq
        /\ resp'.op \in {"POST", "PATCH", "PUT", "DELETE"}
        /\ resp'.status = 500)
       => Tables' = Tables]_vars

----------------------------------------------------------------------------
(* Identifiers *)

\* UUIDs a client can put in a path: any first 8 hex digits with any rest.
ExternalIds == {PyUuid(hi, lo) : hi \in 0..MaxRows, lo \in 0..MaxRows}

\* The row id that the identifier in the representation of row addresses when it
\* is the path id of a request.
RoundTrip(coll, row) == path_id_int(RepId(coll, StoredRep(coll, PyUuid(row, 0))[1]))

\* C33: in the collections addressed by a UUID, the identifier in the
\* representation of a stored row, used as path id, addresses that row, and two
\* different identifiers never address the same stored row.
C33_IdentifierRoundTrip ==
    \A coll \in {"theatres", "cinemas", "showtimes"} :
        /\ \A row \in StoredIds(coll) :
               StoredRep(coll, PyUuid(row, 0)) # None => RoundTrip(coll, row) = row
        /\ \A p, q \in ExternalIds :
               (p # q /\ StoredRep(coll, p) # None) => StoredRep(coll, q) # StoredRep(coll, p)

----------------------------------------------------------------------------
(* What an update leaves alone *)

\* C34: a PATCH or PUT that is accepted leaves the identifier and created_at of
\* the resource it addresses as they were.
C34_IdAndCreationKept ==
    [][(/\ resp'.seq # resp.seq
        /\ resp'.op \in {"PATCH", "PUT"}
        /\ resp'.status = 200)
       => \A c \in AllCollections, p \in AllPaths :
              (c = resp'.coll /\ p = resp'.path)
              => /\ StoredRep(c, p) # None
                 /\ StoredRep(c, p)' # None
                 /\ RepId(c, StoredRep(c, p)'[1]) = RepId(c, StoredRep(c, p)[1])
                 /\ StoredRep(c, p)'[1].created_at = StoredRep(c, p)[1].created_at]_vars

\* The columns of a showtime that a ShowtimeUpdate can supply.
ShowtimeUpdateFields == {"screen_id", "movie_id", "start_time", "price", "seats_booked"}

\* C35: after a PATCH of a showtime that succeeded, every field the payload
\* supplied has the supplied value in the stored showtime and every other field
\* but updated_at is as it was.
C35_PatchChangesSuppliedFields ==
    [][\A showtime_id \in ShowtimeIds, update \in ShowtimePatchPayloads :
           (/\ showtime_service_patch_showtime(showtime_id, update)
            /\ resp'.body # None)
           => \A f \in DOMAIN db_showtimes[showtime_id] \ {"updated_at"} :
                  db_showtimes'[showtime_id][f]
                      = IF f \in ShowtimeUpdateFields /\ update[f] # None
                        THEN update[f][1]
                        ELSE db_showtimes[showtime_id][f]]_vars

----------------------------------------------------------------------------
(* The tag after a seat adjustment *)

\* C36: a seat adjustment by a non-zero d that keeps the booked count of a stored
\* showtime within the capacity returns as ETag the tag of the showtime as stored
\* after it, which is not the tag the showtime had before; the PATCH with a valid
\* body that follows the adjustment at once is answered 200 with the returned tag
\* as If-Match and 412 with the tag of before.
C36_AdjustmentChangesTag ==
    [][/\ \A showtime_id \in PathUuids, d \in SeatDeltas :
              LET id == path_id_int(showtime_id) IN
              (/\ showtime_routes_update_seat_count(showtime_id, [count |-> d])
               /\ ShowtimeDataService_get_showtime_by_id(id) # None
               /\ 0 <= db_showtimes[id].seats_booked + d
               /\ db_showtimes[id].seats_booked + d <= total_seats(db_showtimes[id]))
              => /\ resp'.etag # None
                 /\ resp'.etag = StoredTag("showtimes", showtime_id)'
                 /\ resp'.etag # StoredTag("showtimes", showtime_id)
       /\ (/\ resp.op = "SEATS" /\ resp.status = 200
           /\ resp'.seq # resp.seq
           /\ resp'.op = "PATCH" /\ resp'.path = resp.path /\ resp'.status # 422
           /\ resp'.tag # None)
          => resp'.status = IF resp'.tag = resp.etag THEN 200 ELSE 412]_vars

----------------------------------------------------------------------------
(* Reads *)

\* The requests that read: GET by id, list and seat availability.
ReadOps == {"GET", "LIST", "AVAILABILITY"}

\* The table or dict that holds the resources of collection coll.
TableOf(coll) ==
    CASE coll = "theatres" -> db_theatres
      [] coll = "screens" -> db_screens
      [] coll = "cinemas" -> db_cinemas
      [] coll = "showtimes" -> db_showtimes
      [] coll = "main/theatres" -> theatres
      [] coll = "main/cinemas" -> cinemas

\* C37: a GET by id, a list and a seat availability request, however answered,
\* leave every table as it was, and the tag of a stored resource changes only in
\* a PATCH, PUT or seat adjustment answered 200.
C37_ReadsChangeNothing ==
    [][IF resp'.op \in ReadOps
       THEN Tables' = Tables
       ELSE ~(resp'.op \in {"PATCH", "PUT", "SEATS"} /\ resp'.status = 200)
            => \A c \in AllCollections :
                   TableOf(c)' # TableOf(c)
                   => \A p \in AllPaths :
                          (StoredRep(c, p) # None /\ StoredRep(c, p)' # None)
                          => \/ StoredRep(c, p)' = StoredRep(c, p)
                             \/ StoredTag(c, p)' = StoredTag(c, p)]_vars

\* A GET was answered 200 with the tag of the stored row, a row that a PATCH or
\* PUT had changed before.
C37_Witness ==
    /\ resp.op = "GET" /\ resp.status = 200
    /\ resp.coll \in {"theatres", "screens"}
    /\ resp.etag = StoredTag(resp.coll, resp.path)
    /\ resp.body[1].updated_at # resp.body[1].created_at

----------------------------------------------------------------------------
(* The screen converter *)

\* C38: dict_to_screen_read gives screen_number 0 for an object whose
\* screen_number is None and carries num_rows and num_cols unchanged.
C38_NullScreenNumberIsZero ==
    writers.screen # None
    => /\ writers.screen_number = PyNone => writers.screen[1].screen_number = PyInt(0)
       /\ writers.screen[1].num_rows = PyInt(writers.screen_row.num_rows)
       /\ writers.screen[1].num_cols = PyInt(writers.screen_row.num_cols)

====
